---- MODULE Spec2Model ----
(***************************************************************************)
(* rlox: a tree-walking interpreter for Lox.                               *)
(*                                                                         *)
(* The module models the crate: Environment (environment.rs), Object and   *)
(* Token (token.rs), the syntax tree (generate_ast.rs, and the node        *)
(* constructors used by parser.rs), the Interpreter (interpreter.rs), the  *)
(* Scanner (scanner.rs), the Parser (parser.rs) and the driver Lox::run    *)
(* (lib.rs).  Every function of the interpreter is an operator of the same *)
(* name that takes the interpreter (`self`) and returns the interpreter    *)
(* after the call together with the Result.                                *)
(***************************************************************************)
EXTENDS Integers, Sequences, FiniteSets, TLC

VARIABLES
    program,      \* the Vec<Stmt> handed to Interpreter::interpret
    pc,           \* position of the `for stmt in stmts` loop of interpret
    environment,  \* Interpreter.environment
    output,       \* the lines println! has written so far
    result,       \* what interpret returned: Running until it returns
    events,       \* history: the assigns, defines, blocks, calls and operators
                  \* completed so far, in the order they completed
    stage,        \* where Lox::run is
    scanner,      \* the Scanner of run
    parser,       \* the Parser of run
    parse,        \* the locals `statements` and `errors` of Parser::parse
    stmts,        \* what parse returned: Parsing until it returns
    parsed,       \* history: one record per iteration of the loop of parse
    reported      \* the lines eprintln! has written so far

\* the state of the Interpreter and of its interpret call
interpreter == <<program, pc, environment, output, result, events>>

\* the state of Lox::run outside the interpreter
lox == <<stage, scanner, parser, parse, stmts, parsed, reported>>

vars == <<program, pc, environment, output, result, events,
          stage, scanner, parser, parse, stmts, parsed, reported>>

----------------------------------------------------------------------------
(* token.rs: Token and Object                                              *)

\* Token { token_type, lexeme, literal, line }.  The literal of a token is
\* read by the parser only; the interpreter reads type, lexeme and line.
Token(token_type, lexeme, line) ==
    [token_type |-> token_type, lexeme |-> lexeme, line |-> line]

\* enum Object.  An integral Object::Num holds its integer; a number with
\* a fraction holds its whole part and the digits of its fraction.
ObjString(s) == [tag |-> "String", s |-> s]
ObjNum(n)    == [tag |-> "Num", n |-> n]
ObjFraction(whole, fraction) == [tag |-> "Num", whole |-> whole, fraction |-> fraction]
ObjBool(b)   == [tag |-> "Bool", b |-> b]
ObjNone      == [tag |-> "None"]
\* Object::Fun as the interpreter builds it (interpreter.rs:71): the
\* declaration alone.  No function of the interpreter reads a closure.
ObjFun(decl) == [tag |-> "Fun", decl |-> decl]

\* #[derive(PartialEq)] for Object, with FunctionStmt's eq comparing the
\* name and the parameters only.
ObjectEq(a, b) ==
    IF a.tag # b.tag THEN FALSE
    ELSE IF a.tag = "Fun"
         THEN a.decl.name = b.decl.name /\ a.decl.params = b.decl.params
         ELSE a = b

\* Object::arity
arity(obj) == Len(obj.decl.params)

----------------------------------------------------------------------------
(* generate_ast.rs: Expr and Stmt.  Option<T> is a sequence of length 0 or *)
(* 1, Box<T> is T.                                                         *)

AssignExpr(name, value)          == [expr |-> "Assign", name |-> name, value |-> value]
BinaryExpr(left, operator, right) ==
    [expr |-> "Binary", left |-> left, operator |-> operator, right |-> right]
CallExpr(callee, paren, arguments) ==
    [expr |-> "Call", callee |-> callee, paren |-> paren, arguments |-> arguments]
GroupingExpr(expression)         == [expr |-> "Grouping", expression |-> expression]
LiteralExpr(value)               == [expr |-> "Literal", value |-> value]
LogicalExpr(left, operator, right) ==
    [expr |-> "Logical", left |-> left, operator |-> operator, right |-> right]
UnaryExpr(operator, right)       == [expr |-> "Unary", operator |-> operator, right |-> right]
VariableExpr(name)               == [expr |-> "Variable", name |-> name]

BlockStmt(statements)            == [stmt |-> "Block", statements |-> statements]
ExpressionStmt(expression)       == [stmt |-> "Expression", expression |-> expression]
FunctionStmt(name, params, body) ==
    [stmt |-> "Function", name |-> name, params |-> params, body |-> body]
IfStmt(condition, then_branch, else_branch) ==
    [stmt |-> "If", condition |-> condition, then_branch |-> then_branch,
     else_branch |-> else_branch]
PrintStmt(expression)            == [stmt |-> "Print", expression |-> expression]
ReturnStmt(keyword, value)       == [stmt |-> "Return", keyword |-> keyword, value |-> value]
VarStmt(name, initializer)       == [stmt |-> "Var", name |-> name, initializer |-> initializer]
WhileStmt(condition, body)       == [stmt |-> "While", condition |-> condition, body |-> body]

----------------------------------------------------------------------------
(* lib.rs and interpreter.rs: the results                                  *)

\* Ok(value); Ok(()) is Ok(Unit)
Unit == [tag |-> "Unit"]
Ok(value) == [kind |-> "Ok", value |-> value]

\* pub struct LoxRuntimeError(Token, String)
LoxRuntimeError(token, message) == [token |-> token, message |-> message]

\* Err(..) of a Result<_, LoxRuntimeError>, and LoxRuntimeException::Err
\* after `From<LoxRuntimeError>`
Err(err) == [kind |-> "Err", err |-> err]

\* Err(LoxRuntimeException::Return(value))
Return(value) == [kind |-> "Return", value |-> value]

\* LoxRuntimeException::throw_err
throw_err(token, message) == Err(LoxRuntimeError(token, message))

----------------------------------------------------------------------------
(* environment.rs                                                          *)

\* HashMap::new()
EmptyValues == [n \in {} |-> ObjNone]

\* Environment::new
new == [values |-> EmptyValues, enclosing |-> <<>>]

\* Environment::new_enclosing
new_enclosing(enclosing) == [values |-> EmptyValues, enclosing |-> <<enclosing>>]

\* some scope of the chain defines the name
RECURSIVE Bound(_, _)
Bound(env, lexeme) ==
    \/ lexeme \in DOMAIN env.values
    \/ env.enclosing # <<>> /\ Bound(env.enclosing[1], lexeme)

\* define as it would be if it overwrote a binding of an enclosing scope
RECURSIVE define_overwrites_enclosing(_, _, _)
define_overwrites_enclosing(env, name, value) ==
    IF name \notin DOMAIN env.values /\ env.enclosing # <<>>
          /\ Bound(env.enclosing[1], name)
    THEN [env EXCEPT !.enclosing = <<define_overwrites_enclosing(@[1], name, value)>>]
    ELSE [env EXCEPT !.values = (name :> value) @@ @]

\* Environment::define: HashMap::insert into the values of this scope
define(env, name, value) == [env EXCEPT !.values = (name :> value) @@ @]

\* format!("Undefined variable '{}'.", name.lexeme)
UndefinedVariable(name) ==
    LoxRuntimeError(name, "Undefined variable '" \o name.lexeme \o "'.")

\* Environment::get
RECURSIVE get(_, _)
get(env, name) ==
    IF name.lexeme \in DOMAIN env.values
    THEN Ok(env.values[name.lexeme])
    ELSE IF env.enclosing # <<>>
         THEN get(env.enclosing[1], name)
         ELSE Err(UndefinedVariable(name))

\* assign as it would be if an assign to an undefined name defined a global
RECURSIVE assign_defines_global(_, _, _)
assign_defines_global(env, name, value) ==
    IF name.lexeme \in DOMAIN env.values
    THEN [env |-> [env EXCEPT !.values = (name.lexeme :> value) @@ @],
          res |-> Ok(Unit)]
    ELSE IF env.enclosing # <<>>
         THEN LET inner == assign_defines_global(env.enclosing[1], name, value)
                  after == [env EXCEPT !.enclosing = <<inner.env>>]
              IN  IF inner.res.kind # "Ok"
                  THEN [env |-> after, res |-> inner.res]
                  ELSE [env |-> after, res |-> Err(UndefinedVariable(name))]
         ELSE [env |-> [env EXCEPT !.values = (name.lexeme :> value) @@ @],
               res |-> Ok(Unit)]

\* Environment::assign.  Returns the environment after the call and the
\* Result.  After the `?` on the enclosing scope's assign the function falls
\* through to the final Err.
RECURSIVE assign(_, _, _)
assign(env, name, value) ==
    IF name.lexeme \in DOMAIN env.values
    THEN [env |-> [env EXCEPT !.values = (name.lexeme :> value) @@ @],
          res |-> Ok(Unit)]
    ELSE IF env.enclosing # <<>>
         THEN LET inner == assign(env.enclosing[1], name, value)
                  after == [env EXCEPT !.enclosing = <<inner.env>>]
              IN  IF inner.res.kind # "Ok"
                  THEN [env |-> after, res |-> inner.res]
                  ELSE [env |-> after, res |-> Err(UndefinedVariable(name))]
         ELSE [env |-> env, res |-> Err(UndefinedVariable(name))]

\* The number of scopes of a chain: 1 for the global environment
RECURSIVE depth(_)
depth(env) == IF env.enclosing = <<>> THEN 1 ELSE 1 + depth(env.enclosing[1])

----------------------------------------------------------------------------
(* interpreter.rs.  `self` is the Interpreter: its environment, and with   *)
(* it the lines written to stdout and the history of the statement being   *)
(* executed.  Every operator returns [self |-> .., res |-> ..].            *)

\* history: one record per completed assign, define, block, call, logical,
\* binary and evaluate_call
log(self, event) == [self EXCEPT !.events = Append(@, event)]

\* Interpreter::is_truthy
is_truthy(obj) ==
    CASE obj.tag = "Bool" -> obj.b
      [] obj.tag = "None" -> FALSE
      [] OTHER -> TRUE

\* Interpreter::check_number_operand
check_number_operand(operator, operand) ==
    IF operand.tag = "Num" THEN Ok(operand.n)
    ELSE Err(LoxRuntimeError(operator, "Operand must be number."))

\* Interpreter::check_number_operands
check_number_operands(operator, a, b) ==
    IF a.tag = "Num" /\ b.tag = "Num" THEN Ok(<<a.n, b.n>>)
    ELSE Err(LoxRuntimeError(operator, "Operand must be numbers."))

\* f64 division on the integers of the model: exact quotients are numbers,
\* every other quotient (a fraction, or a division by zero) is kept as the
\* pair it was computed from.
f64_div(a, b) == IF b # 0 /\ a % b = 0 THEN a \div b ELSE <<a, b>>

\* i64/f64 Display: the decimal digits of an integral number
Digit(d) == CASE d = 0 -> "0" [] d = 1 -> "1" [] d = 2 -> "2" [] d = 3 -> "3"
              [] d = 4 -> "4" [] d = 5 -> "5" [] d = 6 -> "6" [] d = 7 -> "7"
              [] d = 8 -> "8" [] d = 9 -> "9"
RECURSIVE to_string(_)
to_string(n) ==
    IF n < 0 THEN "-" \o to_string(0 - n)
    ELSE IF n < 10 THEN Digit(n)
    ELSE to_string(n \div 10) \o Digit(n % 10)

\* f64 Display: an integral value has no fraction and no point; any other
\* value shows its whole part, the point and the digits of its fraction.
f64_to_string(obj) ==
    IF "n" \in DOMAIN obj THEN to_string(obj.n)
    ELSE to_string(obj.whole) \o "." \o obj.fraction

\* str::replace: every occurrence of from, taken from the left without
\* overlap, becomes to
RECURSIVE replace(_, _, _)
replace(text, from, to) ==
    IF Len(text) < Len(from) THEN text
    ELSE IF SubSeq(text, 1, Len(from)) = from
    THEN to \o replace(SubSeq(text, Len(from) + 1, Len(text)), from, to)
    ELSE SubSeq(text, 1, 1) \o replace(SubSeq(text, 2, Len(text)), from, to)

\* Interpreter::strigify
strigify(obj) ==
    CASE obj.tag = "String" -> obj.s
      [] obj.tag = "Bool" -> IF obj.b THEN "true" ELSE "false"
      [] obj.tag = "Num" -> replace(f64_to_string(obj), ".0", "")
      [] obj.tag = "Fun" -> obj.decl.name.lexeme
      [] obj.tag = "None" -> "nil"

\* The Environment that the handle `previous` (an Rc made of the current
\* environment when a block or a call is entered, and the enclosing of the
\* environment created there) gives back to Rc::try_unwrap(..).into_inner():
\* the scope at the depth the handle was taken, reached from the current
\* environment through its enclosing references.
RECURSIVE into_inner(_, _)
into_inner(previous, env) ==
    IF depth(env) <= previous THEN env ELSE into_inner(previous, env.enclosing[1])

\* the parameter loop of call: define(params[i].lexeme, arguments[i])
RECURSIVE define_params(_, _, _)
define_params(env, params, arguments) ==
    IF arguments = <<>> THEN env
    ELSE define_params(define(env, Head(params).lexeme, Head(arguments)),
                       Tail(params), Tail(arguments))

RECURSIVE execute_stmt(_, _)
RECURSIVE execute_stmts(_, _)
RECURSIVE execute_while(_, _)
RECURSIVE evaluate_expr(_, _)
RECURSIVE evaluate_arguments(_, _, _)
RECURSIVE call(_, _, _)

\* The `?` operator: leave with r when r is not Ok, go on with r otherwise
Try(r, Then(_)) == IF r.res.kind # "Ok" THEN r ELSE Then(r)

\* Interpreter::evaluate_literal
evaluate_literal(self, expr) == [self |-> self, res |-> Ok(expr.value)]

\* Interpreter::evaluate_grouping
evaluate_grouping(self, expr) == evaluate_expr(self, expr.expression)

\* Expr::Variable in evaluate_expr
evaluate_variable(self, expr) == [self |-> self, res |-> get(self.environment, expr.name)]

\* Interpreter::evaluate_assign
evaluate_assign(self, expr) ==
    Try(evaluate_expr(self, expr.value), LAMBDA v :
        LET a == assign(v.self.environment, expr.name, v.res.value)
            res == IF a.res.kind # "Ok" THEN a.res ELSE Ok(v.res.value)
            event == [op |-> "assign", name |-> expr.name, value |-> v.res.value,
                      before |-> v.self.environment, after |-> a.env,
                      out |-> v.self.output, res |-> res]
        IN  [self |-> log([v.self EXCEPT !.environment = a.env], event), res |-> res])

\* the match on expr.operator.token_type of evaluate_binary
binary_op(operator, left, right) ==
    LET nums == check_number_operands(operator, left, right)
        a == nums.value[1]
        b == nums.value[2]
        t == operator.token_type
    IN  CASE t = "Plus" ->
                IF left.tag = "String" /\ right.tag = "String"
                THEN Ok(ObjString(left.s \o right.s))
                ELSE IF left.tag = "Num" /\ right.tag = "Num"
                THEN Ok(ObjNum(left.n + right.n))
                ELSE throw_err(operator, "Operands must be two numbers or two strings.")
          [] t = "BangEqual" -> Ok(ObjBool(~ObjectEq(left, right)))
          [] t = "EqualEqual" -> Ok(ObjBool(ObjectEq(left, right)))
          [] OTHER ->
                IF nums.kind # "Ok" THEN nums
                ELSE CASE t = "Minus" -> Ok(ObjNum(a - b))
                       [] t = "Star" -> Ok(ObjNum(a * b))
                       [] t = "Slash" -> Ok(ObjNum(f64_div(a, b)))
                       [] t = "Greater" -> Ok(ObjBool(a > b))
                       [] t = "GreaterEqual" -> Ok(ObjBool(a >= b))
                       [] t = "Less" -> Ok(ObjBool(a < b))
                       [] t = "LessEqual" -> Ok(ObjBool(a <= b))

\* Interpreter::evaluate_binary
evaluate_binary(self, expr) ==
    Try(evaluate_expr(self, expr.left), LAMBDA l :
        Try(evaluate_expr(l.self, expr.right), LAMBDA r :
            LET res == binary_op(expr.operator, l.res.value, r.res.value)
                event == [op |-> "binary", operator |-> expr.operator,
                          left |-> l.res.value, right |-> r.res.value,
                          out |-> r.self.output, res |-> res]
            IN  [self |-> log(r.self, event), res |-> res]))

\* Interpreter::evaluate_unary
evaluate_unary(self, expr) ==
    Try(evaluate_expr(self, expr.right), LAMBDA r :
        LET num == check_number_operand(expr.operator, r.res.value)
        IN  IF expr.operator.token_type = "Bang"
            THEN [self |-> r.self, res |-> Ok(ObjBool(~is_truthy(r.res.value)))]
            ELSE IF num.kind # "Ok" THEN [self |-> r.self, res |-> num]
            ELSE [self |-> r.self, res |-> Ok(ObjNum(0 - num.value))])

\* evaluate_logical as it would be if both operands were evaluated first
evaluate_logical_eager(self, expr) ==
    Try(evaluate_expr(self, expr.left), LAMBDA l :
        Try(evaluate_expr(l.self, expr.right), LAMBDA r :
            LET left == l.res.value
                short == IF is_truthy(left)
                         THEN expr.operator.token_type = "Or"
                         ELSE expr.operator.token_type = "And"
                res == IF short THEN l.res ELSE r.res
                event == [op |-> "logical", operator |-> expr.operator.token_type,
                          left |-> left, right_evaluated |-> ~short,
                          env_mid |-> l.self.environment, env_end |-> r.self.environment,
                          out_mid |-> l.self.output, out |-> r.self.output,
                          res |-> res]
            IN  [self |-> log(r.self, event), res |-> res]))

\* Interpreter::evaluate_logical
evaluate_logical(self, expr) ==
    Try(evaluate_expr(self, expr.left), LAMBDA l :
        LET left == l.res.value
            returned(right_evaluated, r) ==
                LET event == [op |-> "logical", operator |-> expr.operator.token_type,
                              left |-> left, right_evaluated |-> right_evaluated,
                              env_mid |-> l.self.environment, env_end |-> r.self.environment,
                              out_mid |-> l.self.output, out |-> r.self.output,
                              res |-> r.res]
                IN  [self |-> log(r.self, event), res |-> r.res]
        IN  IF is_truthy(left) /\ expr.operator.token_type = "Or"
            THEN returned(FALSE, l)
            ELSE IF ~is_truthy(left) /\ expr.operator.token_type = "And"
            THEN returned(FALSE, l)
            ELSE returned(TRUE, evaluate_expr(l.self, expr.right)))

\* evaluate_call letting a call with too few arguments through to call
evaluate_call_unchecked(self, expr) ==
    Try(evaluate_expr(self, expr.callee), LAMBDA c :
        Try(evaluate_arguments(c.self, expr.arguments, <<>>), LAMBDA args :
            LET callee == c.res.value
                arguments == args.res.value
                returned(r) ==
                    LET event == [op |-> "evaluate_call", callee |-> callee,
                                  arguments |-> arguments, paren |-> expr.paren,
                                  out_mid |-> args.self.output, out |-> r.self.output,
                                  ran |-> Len(r.self.events) - Len(args.self.events),
                                  res |-> r.res]
                    IN  [self |-> log(r.self, event), res |-> r.res]
            IN  IF callee.tag = "Fun"
                THEN IF Len(arguments) > arity(callee)
                     THEN returned([self |-> args.self,
                                    res |-> throw_err(expr.paren,
                                               "Expected " \o to_string(arity(callee))
                                               \o " arguments but got "
                                               \o to_string(Len(arguments)) \o ".")])
                     ELSE returned(call(args.self, arguments, callee.decl))
                ELSE returned([self |-> args.self,
                               res |-> throw_err(expr.paren,
                                          "Can only call functions and classes.")])))

\* Interpreter::evaluate_call
evaluate_call(self, expr) ==
    Try(evaluate_expr(self, expr.callee), LAMBDA c :
        Try(evaluate_arguments(c.self, expr.arguments, <<>>), LAMBDA args :
            LET callee == c.res.value
                arguments == args.res.value
                returned(r) ==
                    LET event == [op |-> "evaluate_call", callee |-> callee,
                                  arguments |-> arguments, paren |-> expr.paren,
                                  out_mid |-> args.self.output, out |-> r.self.output,
                                  ran |-> Len(r.self.events) - Len(args.self.events),
                                  res |-> r.res]
                    IN  [self |-> log(r.self, event), res |-> r.res]
            IN  IF callee.tag = "Fun"
                THEN IF Len(arguments) # arity(callee)
                     THEN returned([self |-> args.self,
                                    res |-> throw_err(expr.paren,
                                               "Expected " \o to_string(arity(callee))
                                               \o " arguments but got "
                                               \o to_string(Len(arguments)) \o ".")])
                     ELSE returned(call(args.self, arguments, callee.decl))
                ELSE returned([self |-> args.self,
                               res |-> throw_err(expr.paren,
                                          "Can only call functions and classes.")])))

\* the argument loop of evaluate_call: arguments.push(self.evaluate_expr(arg)?)
evaluate_arguments(self, exprs, arguments) ==
    IF exprs = <<>> THEN [self |-> self, res |-> Ok(arguments)]
    ELSE Try(evaluate_expr(self, Head(exprs)), LAMBDA a :
             evaluate_arguments(a.self, Tail(exprs), Append(arguments, a.res.value)))

\* call as it would be if, like a block, it gave `previous` back only when
\* the body ran to completion
call_leaves_on_exception(self, params, fun) ==
    LET previous == depth(self.environment)
        entered == [self EXCEPT !.environment =
                       define_params(new_enclosing(self.environment), fun.params, params)]
        returned(body) ==
            LET restored == IF body.res.kind # "Ok"
                            THEN body.self.environment
                            ELSE into_inner(previous, body.self.environment)
                res == CASE body.res.kind = "Return" -> Ok(body.res.value)
                         [] body.res.kind = "Err" -> Err(body.res.err)
                         [] OTHER -> Ok(ObjNone)
                event == [op |-> "call", fun |-> fun.name.lexeme, params |-> params,
                          exit |-> body.res,
                          before |-> self.environment, entered |-> entered.environment,
                          inner |-> body.self.environment, after |-> restored,
                          out_before |-> self.output, out |-> body.self.output,
                          res |-> res]
            IN  [self |-> log([body.self EXCEPT !.environment = restored], event),
                 res |-> res]
    IN  returned(execute_stmts(entered, fun.body))

\* call as it would be if a Return ended the call without its value
call_drops_value(self, params, fun) ==
    LET previous == depth(self.environment)
        entered == [self EXCEPT !.environment =
                       define_params(new_enclosing(self.environment), fun.params, params)]
        returned(body) ==
            LET restored == into_inner(previous, body.self.environment)
                res == CASE body.res.kind = "Err" -> Err(body.res.err)
                         [] OTHER -> Ok(ObjNone)
                event == [op |-> "call", fun |-> fun.name.lexeme, params |-> params,
                          exit |-> body.res,
                          before |-> self.environment, entered |-> entered.environment,
                          inner |-> body.self.environment, after |-> restored,
                          out_before |-> self.output, out |-> body.self.output,
                          res |-> res]
            IN  [self |-> log([body.self EXCEPT !.environment = restored], event),
                 res |-> res]
    IN  returned(execute_stmts(entered, fun.body))

\* Interpreter::call.  Whatever the body ends with, `previous` is given back
\* to self.environment before the match on the exception.
call(self, params, fun) ==
    LET previous == depth(self.environment)
        entered == [self EXCEPT !.environment =
                       define_params(new_enclosing(self.environment), fun.params, params)]
        returned(body) ==
            LET restored == into_inner(previous, body.self.environment)
                res == CASE body.res.kind = "Return" -> Ok(body.res.value)
                         [] body.res.kind = "Err" -> Err(body.res.err)
                         [] OTHER -> Ok(ObjNone)
                event == [op |-> "call", fun |-> fun.name.lexeme, params |-> params,
                          exit |-> body.res,
                          before |-> self.environment, entered |-> entered.environment,
                          inner |-> body.self.environment, after |-> restored,
                          out_before |-> self.output, out |-> body.self.output,
                          res |-> res]
            IN  [self |-> log([body.self EXCEPT !.environment = restored], event),
                 res |-> res]
    IN  returned(execute_stmts(entered, fun.body))

\* Interpreter::evaluate_expr
evaluate_expr(self, expr) ==
    CASE expr.expr = "Assign" -> evaluate_assign(self, expr)
      [] expr.expr = "Binary" -> evaluate_binary(self, expr)
      [] expr.expr = "Call" -> evaluate_call(self, expr)
      [] expr.expr = "Grouping" -> evaluate_grouping(self, expr)
      [] expr.expr = "Literal" -> evaluate_literal(self, expr)
      [] expr.expr = "Unary" -> evaluate_unary(self, expr)
      [] expr.expr = "Variable" -> evaluate_variable(self, expr)
      [] expr.expr = "Logical" -> evaluate_logical(self, expr)

\* Stmt::Block in execute_stmt.  The `?` on a statement of the block leaves
\* the function before the lines that give `previous` back.
execute_block(self, stmt) ==
    LET previous == depth(self.environment)
        entered == [self EXCEPT !.environment = new_enclosing(self.environment)]
        returned(body) ==
            LET after == IF body.res.kind # "Ok"
                         THEN body.self.environment
                         ELSE into_inner(previous, body.self.environment)
                event == [op |-> "block", before |-> self.environment, after |-> after,
                          out |-> body.self.output, res |-> body.res]
            IN  [self |-> log([body.self EXCEPT !.environment = after], event),
                 res |-> body.res]
    IN  returned(execute_stmts(entered, stmt.statements))

\* Stmt::Return in execute_stmt
execute_return(self, stmt) ==
    IF stmt.value # <<>>
    THEN Try(evaluate_expr(self, stmt.value[1]), LAMBDA v :
             [self |-> v.self, res |-> Return(v.res.value)])
    ELSE [self |-> self, res |-> Return(ObjNone)]

\* Stmt::Print in execute_stmt
execute_print(self, stmt) ==
    Try(evaluate_expr(self, stmt.expression), LAMBDA v :
        [self |-> [v.self EXCEPT !.output = Append(@, strigify(v.res.value))],
         res |-> Ok(Unit)])

\* Stmt::Var in execute_stmt
execute_var(self, stmt) ==
    Try(evaluate_expr(self, stmt.initializer), LAMBDA v :
        LET after == define(v.self.environment, stmt.name.lexeme, v.res.value)
            event == [op |-> "define", name |-> stmt.name.lexeme, value |-> v.res.value,
                      before |-> v.self.environment, after |-> after,
                      out |-> v.self.output, res |-> Ok(Unit)]
        IN  [self |-> log([v.self EXCEPT !.environment = after], event),
             res |-> Ok(Unit)])

\* Stmt::Function in execute_stmt
execute_function(self, stmt) ==
    [self |-> [self EXCEPT !.environment = define(@, stmt.name.lexeme, ObjFun(stmt))],
     res |-> Ok(Unit)]

\* Stmt::If in execute_stmt
execute_if(self, stmt) ==
    Try(evaluate_expr(self, stmt.condition), LAMBDA c :
        IF is_truthy(c.res.value) THEN execute_stmt(c.self, stmt.then_branch)
        ELSE IF stmt.else_branch # <<>> THEN execute_stmt(c.self, stmt.else_branch[1])
        ELSE [self |-> c.self, res |-> Ok(Unit)])

\* Stmt::While in execute_stmt
execute_while(self, stmt) ==
    Try(evaluate_expr(self, stmt.condition), LAMBDA c :
        IF ~is_truthy(c.res.value) THEN [self |-> c.self, res |-> Ok(Unit)]
        ELSE Try(execute_stmt(c.self, stmt.body), LAMBDA b :
                 execute_while(b.self, stmt)))

\* Stmt::Expression in execute_stmt
execute_expression(self, stmt) ==
    Try(evaluate_expr(self, stmt.expression), LAMBDA v :
        [self |-> v.self, res |-> Ok(Unit)])

\* the statement loops of Stmt::Block and of call: execute in order, leave
\* at the first statement that is not Ok
execute_stmts(self, statements) ==
    IF statements = <<>> THEN [self |-> self, res |-> Ok(Unit)]
    ELSE Try(execute_stmt(self, Head(statements)), LAMBDA s :
             execute_stmts(s.self, Tail(statements)))

\* Interpreter::execute_stmt
execute_stmt(self, stmt) ==
    CASE stmt.stmt = "Expression" -> execute_expression(self, stmt)
      [] stmt.stmt = "If" -> execute_if(self, stmt)
      [] stmt.stmt = "While" -> execute_while(self, stmt)
      [] stmt.stmt = "Function" -> execute_function(self, stmt)
      [] stmt.stmt = "Block" -> execute_block(self, stmt)
      [] stmt.stmt = "Return" -> execute_return(self, stmt)
      [] stmt.stmt = "Print" -> execute_print(self, stmt)
      [] stmt.stmt = "Var" -> execute_var(self, stmt)

----------------------------------------------------------------------------
(* scanner.rs: Scanner.  The source is a string, `start` and `current` are *)
(* the 0-based character positions of the struct, and source.chars().nth(i)*)
(* is the character at position i.  A panic (an `expect` on a position     *)
(* past the end of the source) is recorded in the field `panic`, which is  *)
(* empty while the scanner runs.                                           *)

\* Token::new(token_type, lexeme, literal, line) as the scanner builds it
Token_new(token_type, lexeme, literal, line) ==
    [token_type |-> token_type, lexeme |-> lexeme, literal |-> literal, line |-> line]

\* pub struct LoxScanError(usize, String)
LoxScanError(line, message) == [line |-> line, message |-> message]

\* Scanner::new
Scanner_new(source) ==
    [source |-> source, tokens |-> <<>>, start |-> 0, current |-> 0, line |-> 1,
     panic |-> ""]

\* char::is_ascii_digit
is_ascii_digit(c) == c \in {"0", "1", "2", "3", "4", "5", "6", "7", "8", "9"}

\* char::is_alphabetic, on the ASCII letters
is_alphabetic(c) ==
    c \in {"a", "b", "c", "d", "e", "f", "g", "h", "i", "j", "k", "l", "m", "n", "o",
           "p", "q", "r", "s", "t", "u", "v", "w", "x", "y", "z",
           "A", "B", "C", "D", "E", "F", "G", "H", "I", "J", "K", "L", "M", "N", "O",
           "P", "Q", "R", "S", "T", "U", "V", "W", "X", "Y", "Z"}

\* char::is_ascii_alphanumeric
is_ascii_alphanumeric(c) == is_alphabetic(c) \/ is_ascii_digit(c)

\* self.source.chars().nth(i), for a position inside the source
nth(s, i) == SubSeq(s.source, i + 1, i + 1)

\* &self.source[from..to]
slice(s, from, to) == SubSeq(s.source, from + 1, to)

\* Scanner::is_at_end
Scanner_is_at_end(s) == s.current >= Len(s.source)

\* what Scanner::peek returns when .expect("peek in scanner") panics
PeekPanics == "peek in scanner"

\* Scanner::peek
Scanner_peek(s) == IF s.current < Len(s.source) THEN nth(s, s.current) ELSE PeekPanics

\* Scanner::peek_next; '\0' is the string NUL
peek_next(s) == IF s.current + 1 >= Len(s.source) THEN "NUL" ELSE nth(s, s.current + 1)

\* Scanner::advance; the character it returns is nth(s, s.current)
Scanner_advance(s) ==
    IF s.current < Len(s.source) THEN [s EXCEPT !.current = @ + 1]
    ELSE [s EXCEPT !.panic = "advance in scanner"]

\* Scanner::match_token: the scanner after it, `matched` telling what it returned
match_token(s, expected) ==
    IF Scanner_is_at_end(s) THEN [self |-> s, matched |-> FALSE]
    ELSE IF nth(s, s.current) # expected THEN [self |-> s, matched |-> FALSE]
    ELSE [self |-> [s EXCEPT !.current = @ + 1], matched |-> TRUE]

\* Scanner::add_token_with_literal
add_token_with_literal(s, token_type, literal) ==
    [s EXCEPT !.tokens =
        Append(@, Ok(Token_new(token_type, slice(s, s.start, s.current), literal, s.line)))]

\* Scanner::add_token
add_token(s, token_type) == add_token_with_literal(s, token_type, ObjNone)

\* self.tokens.push(Err(LoxScanError(self.line, message)))
push_error(s, message) ==
    [s EXCEPT !.tokens = Append(@, Err(LoxScanError(s.line, message)))]

\* Scanner::keywords: Some(token type) is <<token type>>, None is <<>>
keywords(identifier) ==
    CASE identifier = "and" -> <<"And">>
      [] identifier = "class" -> <<"Class">>
      [] identifier = "else" -> <<"Else">>
      [] identifier = "false" -> <<"False">>
      [] identifier = "for" -> <<"For">>
      [] identifier = "fun" -> <<"Fun">>
      [] identifier = "if" -> <<"If">>
      [] identifier = "nil" -> <<"Nil">>
      [] identifier = "or" -> <<"Or">>
      [] identifier = "print" -> <<"Print">>
      [] identifier = "return" -> <<"Return">>
      [] identifier = "super" -> <<"Super">>
      [] identifier = "this" -> <<"This">>
      [] identifier = "true" -> <<"True">>
      [] identifier = "Var" -> <<"Var">>
      [] identifier = "while" -> <<"While">>
      [] OTHER -> <<>>

\* while self.peek().is_ascii_alphanumeric() || self.peek() == '_' { advance }:
\* peek is called before anything tells whether the source is over
RECURSIVE identifier_loop(_)
identifier_loop(s) ==
    LET c == Scanner_peek(s)
    IN  IF c = PeekPanics THEN [s EXCEPT !.panic = PeekPanics]
        ELSE IF is_ascii_alphanumeric(c) \/ c = "_" THEN identifier_loop(Scanner_advance(s))
        ELSE s

\* while self.peek().is_ascii_digit() { advance }
RECURSIVE digits_loop(_)
digits_loop(s) ==
    LET c == Scanner_peek(s)
    IN  IF c = PeekPanics THEN [s EXCEPT !.panic = PeekPanics]
        ELSE IF is_ascii_digit(c) THEN digits_loop(Scanner_advance(s))
        ELSE s

\* Scanner::identifier
identifier(s) ==
    LET scanned == identifier_loop(s)
        text == slice(scanned, scanned.start, scanned.current)
    IN  IF scanned.panic # "" THEN scanned
        ELSE IF keywords(text) # <<>> THEN add_token(scanned, keywords(text)[1])
        ELSE add_token_with_literal(scanned, "Identifier", ObjString(text))

\* the value of a digit, and of a text of digits
digit_value(c) == CHOOSE d \in 0 .. 9 : Digit(d) = c
RECURSIVE digits_value(_)
digits_value(text) ==
    IF text = "" THEN 0
    ELSE 10 * digits_value(SubSeq(text, 1, Len(text) - 1))
         + digit_value(SubSeq(text, Len(text), Len(text)))

\* a fraction without its trailing zeros
RECURSIVE trim_zeros(_)
trim_zeros(text) ==
    IF text # "" /\ SubSeq(text, Len(text), Len(text)) = "0"
    THEN trim_zeros(SubSeq(text, 1, Len(text) - 1))
    ELSE text

\* the position of the first '.' of a text, 0 when it has none
RECURSIVE find_dot(_, _)
find_dot(text, i) ==
    IF i > Len(text) THEN 0
    ELSE IF SubSeq(text, i, i) = "." THEN i
    ELSE find_dot(text, i + 1)

\* str::parse::<f64> of digits with an optional fraction: the whole part
\* and the digits of the fraction, which are none for an integral value.
parse_f64(text) ==
    LET dot == find_dot(text, 1)
    IN  IF dot = 0 THEN [whole |-> digits_value(text), fraction |-> ""]
        ELSE [whole |-> digits_value(SubSeq(text, 1, dot - 1)),
              fraction |-> trim_zeros(SubSeq(text, dot + 1, Len(text)))]

\* Object::Num(num)
Object_Num(num) ==
    IF num.fraction = "" THEN ObjNum(num.whole) ELSE ObjFraction(num.whole, num.fraction)

\* Scanner::number
number(s) ==
    LET whole == digits_loop(s)
        scanned ==
            IF Scanner_peek(whole) = "." /\ is_ascii_digit(peek_next(whole))
            THEN digits_loop(Scanner_advance(whole))
            ELSE whole
    IN  IF whole.panic # "" THEN whole
        ELSE IF scanned.panic # "" THEN scanned
        ELSE add_token_with_literal(scanned, "Number",
                 Object_Num(parse_f64(slice(scanned, scanned.start, scanned.current))))

\* while self.peek() != '"' && !self.is_at_end() && self.peek() != '\n'
\* and while self.peek() != '\n' && !self.is_at_end(): peek comes first
RECURSIVE advance_until(_, _)
advance_until(s, stops) ==
    LET c == Scanner_peek(s)
    IN  IF c = PeekPanics THEN [s EXCEPT !.panic = PeekPanics]
        ELSE IF c \in stops THEN s
        ELSE advance_until(Scanner_advance(s), stops)

\* Scanner::string
string(s) ==
    LET scanned == advance_until(s, {"\"", "\n"})
        closed == Scanner_advance(scanned)
    IN  IF scanned.panic # "" THEN scanned
        ELSE IF Scanner_is_at_end(scanned) \/ Scanner_peek(scanned) = "\n"
        THEN push_error(scanned, "Unterminated string.")
        ELSE add_token_with_literal(closed, "String",
                 ObjString(slice(closed, closed.start + 1, closed.current - 1)))

\* one or two character operators: `first` alone, or `first` followed by '='
one_or_two(s, two, one) ==
    LET m == match_token(s, "=")
    IN  IF m.matched THEN add_token(m.self, two) ELSE add_token(m.self, one)

\* Scanner::scan_token
scan_token(s) ==
    LET c == nth(s, s.current)
        a == Scanner_advance(s)
    IN  IF a.panic # "" THEN a
        ELSE CASE c = "(" -> add_token(a, "LeftParen")
               [] c = ")" -> add_token(a, "RightParen")
               [] c = "{" -> add_token(a, "LeftBrace")
               [] c = "}" -> add_token(a, "RightBrace")
               [] c = "," -> add_token(a, "Comma")
               [] c = "." -> add_token(a, "Dot")
               [] c = "-" -> add_token(a, "Minus")
               [] c = "+" -> add_token(a, "Plus")
               [] c = "*" -> add_token(a, "Star")
               [] c = ";" -> add_token(a, "SemiColon")
               [] c = "!" -> one_or_two(a, "BangEqual", "Bang")
               [] c = "=" -> one_or_two(a, "EqualEqual", "Equal")
               [] c = "<" -> one_or_two(a, "LessEqual", "Less")
               [] c = ">" -> one_or_two(a, "GreaterEqual", "Greater")
               [] c = "/" ->
                    LET m == match_token(a, "/")
                    IN  IF m.matched THEN advance_until(m.self, {"\n"})
                        ELSE add_token(m.self, "Slash")
               [] c \in {" ", "\t", "\r"} -> a
               [] c = "\n" -> [a EXCEPT !.line = @ + 1]
               [] c = "\"" -> string(a)
               [] OTHER ->
                    IF is_ascii_digit(c) THEN number(a)
                    ELSE IF is_alphabetic(c) THEN identifier(a)
                    ELSE push_error(a, "Unexpected character.")

\* one turn of `while !self.is_at_end()` in Scanner::scan_tokens; the
\* scanner is left as it is once the loop is over or a panic unwinds
scan_tokens_turn(s) ==
    IF s.panic # "" \/ Scanner_is_at_end(s) THEN s
    ELSE scan_token([s EXCEPT !.start = s.current])

\* n turns of that loop, the first half of them and then, unless a panic
\* has ended the loop, the rest
RECURSIVE scan_tokens_loop(_, _)
scan_tokens_loop(s, n) ==
    IF n = 0 THEN s
    ELSE IF n = 1 THEN scan_tokens_turn(s)
    ELSE LET half == scan_tokens_loop(s, n \div 2)
         IN  IF half.panic # "" THEN half
             ELSE scan_tokens_loop(half, n - n \div 2)

\* self.tokens.push(Ok(Token::new(TokenType::Eof, "".into(), Object::None,
\* self.line))), unless a panic unwinds
push_eof(s) ==
    IF s.panic # "" THEN s
    ELSE [s EXCEPT !.tokens = Append(@, Ok(Token_new("Eof", "", ObjNone, s.line)))]

\* Scanner::scan_tokens.  Every turn of the loop advances, so that the loop
\* is over after at most one turn for each character of the source.
scan_tokens(s) == push_eof(scan_tokens_loop(s, Len(s.source)))

----------------------------------------------------------------------------
(* parser.rs: Parser { tokens, current }.  `current` is the 0-based index  *)
(* of the struct, so the token at it is tokens[current + 1].  Every        *)
(* function is an operator that takes the parser and returns the parser    *)
(* after the call with the Result; a panic (an unwrap of None, an index    *)
(* below zero) is the result Panic, which `?` and every caller pass on.    *)

\* pub struct LoxParseError(Token, String)
LoxParseError(token, message) == [token |-> token, message |-> message]

\* the thread panicked
Panic(message) == [kind |-> "Panic", message |-> message]

\* Parser::new
Parser_new(tokens) == [tokens |-> tokens, current |-> 0]

\* Parser::peek: self.tokens.get(self.current).unwrap()
Parser_peek(p) ==
    IF p.current < Len(p.tokens)
    THEN [self |-> p, res |-> Ok(p.tokens[p.current + 1])]
    ELSE [self |-> p, res |-> Panic("peek: called Option::unwrap() on a None value")]

\* Parser::previous: self.tokens.get(self.current - 1).unwrap()
previous(p) ==
    IF p.current >= 1 /\ p.current - 1 < Len(p.tokens)
    THEN [self |-> p, res |-> Ok(p.tokens[p.current])]
    ELSE [self |-> p, res |-> Panic("previous: attempt to subtract with overflow")]

\* Parser::is_at_end
Parser_is_at_end(p) ==
    Try(Parser_peek(p), LAMBDA t :
        [self |-> p, res |-> Ok(t.res.value.token_type = "Eof")])

\* Parser::check
check(p, token_type) ==
    Try(Parser_is_at_end(p), LAMBDA end :
        IF end.res.value THEN [self |-> p, res |-> Ok(FALSE)]
        ELSE Try(Parser_peek(p), LAMBDA t :
                 [self |-> p, res |-> Ok(t.res.value.token_type = token_type)]))

\* advance as it would be without its test of is_at_end
Parser_advance_unchecked(p) ==
    Try(Parser_is_at_end(p), LAMBDA end :
        previous([p EXCEPT !.current = @ + 1]))

\* Parser::advance
Parser_advance(p) ==
    Try(Parser_is_at_end(p), LAMBDA end :
        previous(IF end.res.value THEN p ELSE [p EXCEPT !.current = @ + 1]))

\* Parser::match_type followed, when it returned true, by self.previous():
\* Ok(<<the token matched>>), or Ok(<<>>) when it returned false.  `types`
\* is the set of the token types of the slice; a token has one type, so the order
\* of the slice does not matter.
match_type(p, types) ==
    Try(Parser_is_at_end(p), LAMBDA end :
        IF end.res.value THEN [self |-> p, res |-> Ok(<<>>)]
        ELSE Try(Parser_peek(p), LAMBDA t :
                 IF t.res.value.token_type \in types
                 THEN Try(Parser_advance(p), LAMBDA a :
                          [self |-> a.self, res |-> Ok(<<a.res.value>>)])
                 ELSE [self |-> p, res |-> Ok(<<>>)]))

\* Parser::consume with the map_err (or the match) every caller applies to
\* it: Ok(token), or Err(LoxParseError(the token at current, message))
consume(p, token_type, message) ==
    Try(check(p, token_type), LAMBDA c :
        IF c.res.value THEN Parser_advance(p)
        ELSE Try(Parser_peek(p), LAMBDA t :
                 [self |-> p, res |-> Err(LoxParseError(t.res.value, message))]))

\* the token types at which Parser::synchronize stops
Boundaries == {"Class", "For", "Fun", "If", "Print", "Return", "Var", "While"}

\* the loop of Parser::synchronize
RECURSIVE synchronize_loop(_)
synchronize_loop(p) ==
    Try(Parser_is_at_end(p), LAMBDA end :
        IF end.res.value THEN [self |-> p, res |-> Ok(Unit)]
        ELSE Try(previous(p), LAMBDA prev :
                 IF prev.res.value.token_type = "SemiColon"
                 THEN [self |-> p, res |-> Ok(Unit)]
                 ELSE Try(Parser_peek(p), LAMBDA t :
                          IF t.res.value.token_type \in Boundaries
                          THEN [self |-> p, res |-> Ok(Unit)]
                          ELSE Try(Parser_advance(p), LAMBDA a :
                                   synchronize_loop(a.self)))))

\* Parser::synchronize
synchronize(p) == Try(Parser_advance(p), LAMBDA a : synchronize_loop(a.self))


\* A call of a function of the parser by another: rule(name, p, argument)
\* is name(p), or name(p, argument) for the functions with a second
\* parameter.
RECURSIVE rule(_, _, _)

\* Parser::primary
primary(p) ==
    Try(Parser_peek(p), LAMBDA t :
        LET token == t.res.value
            next == [p EXCEPT !.current = @ + 1]
            literal(value) == [self |-> next, res |-> Ok(LiteralExpr(value))]
        IN  CASE token.token_type = "False" -> literal(ObjBool(FALSE))
              [] token.token_type = "True" -> literal(ObjBool(TRUE))
              [] token.token_type = "Nil" -> literal(ObjNone)
              [] token.token_type = "Number" ->
                    IF token.literal.tag = "Num" THEN literal(token.literal)
                    ELSE [self |-> p, res |-> Panic("num: called Result::unwrap() on an Err value")]
              [] token.token_type = "String" ->
                    IF token.literal.tag = "String" THEN literal(ObjString(token.literal.s))
                    ELSE [self |-> p, res |-> Panic("str: called Result::unwrap() on an Err value")]
              [] token.token_type = "LeftParen" ->
                    Try(rule("expression", next, <<>>), LAMBDA e :
                        Try(consume(e.self, "RightParen", "Expecte ')' after expression."),
                            LAMBDA c :
                                [self |-> c.self, res |-> Ok(GroupingExpr(e.res.value))]))
              [] token.token_type = "Identifier" ->
                    Try(previous(next), LAMBDA name :
                        [self |-> next, res |-> Ok(VariableExpr(name.res.value))])
              [] OTHER ->
                    Try(Parser_advance(p), LAMBDA a :
                        [self |-> a.self,
                         res |-> Err(LoxParseError(a.res.value, "Expect expression."))]))

\* one turn of the argument loop of Parser::finish_call, from the parser
\* and the arguments of l: the arguments with one more, and whether the loop
\* goes on (a comma was matched) or breaks
arguments_turn(l) ==
    Try(rule("expression", l.self, <<>>), LAMBDA e :
        LET pushed == Append(l.res.value.list, e.res.value)
        IN  IF Len(pushed) >= 255
            THEN Try(Parser_peek(e.self), LAMBDA t :
                     [self |-> e.self,
                      res |-> Err(LoxParseError(t.res.value,
                                  "Can't have more than 255 arguments."))])
            ELSE Try(match_type(e.self, {"Comma"}), LAMBDA m :
                     [self |-> m.self,
                      res |-> Ok([list |-> pushed, again |-> m.res.value # <<>>])]))

\* up to n turns of the argument loop, until it breaks or returns an error
RECURSIVE arguments_turns(_, _)
arguments_turns(l, n) ==
    IF n = 0 THEN l
    ELSE IF n = 1 THEN arguments_turn(l)
    ELSE LET half == arguments_turns(l, n \div 2)
         IN  IF half.res.kind # "Ok" THEN half
             ELSE IF ~half.res.value.again THEN half
             ELSE arguments_turns(half, n - n \div 2)

\* the argument loop of Parser::finish_call.  Every turn consumes a token,
\* so the loop has ended within as many turns as there are tokens.
arguments_loop(p, arguments) ==
    LET l == arguments_turns([self |-> p, res |-> Ok([list |-> arguments, again |-> TRUE])],
                             Len(p.tokens))
    IN  IF l.res.kind # "Ok" THEN l
        ELSE [self |-> l.self, res |-> Ok(l.res.value.list)]

\* Parser::finish_call
finish_call(p, callee) ==
    Try(check(p, "RightParen"), LAMBDA c :
        Try(IF c.res.value THEN [self |-> p, res |-> Ok(<<>>)] ELSE rule("arguments_loop", p, <<>>),
            LAMBDA arguments :
                Try(consume(arguments.self, "RightParen", "Expect ')' after arguments."),
                    LAMBDA paren :
                        [self |-> paren.self,
                         res |-> Ok(CallExpr(callee, paren.res.value, arguments.res.value))])))

\* the loop of Parser::call
call_loop(p, expr) ==
    Try(match_type(p, {"LeftParen"}), LAMBDA m :
        IF m.res.value = <<>> THEN [self |-> m.self, res |-> Ok(expr)]
        ELSE Try(rule("finish_call", m.self, expr), LAMBDA f : rule("call_loop", f.self, f.res.value)))

\* Parser::call
Parser_call(p) == Try(rule("primary", p, <<>>), LAMBDA e : rule("call_loop", e.self, e.res.value))

\* Parser::unary
unary(p) ==
    Try(match_type(p, {"Bang", "Minus"}), LAMBDA m :
        IF m.res.value = <<>> THEN rule("Parser_call", m.self, <<>>)
        ELSE Try(rule("unary", m.self, <<>>), LAMBDA right :
                 [self |-> right.self,
                  res |-> Ok(UnaryExpr(m.res.value[1], right.res.value))]))

\* the loop of Parser::factor
factor_loop(p, expr) ==
    Try(match_type(p, {"Star", "Slash"}), LAMBDA m :
        IF m.res.value = <<>> THEN [self |-> m.self, res |-> Ok(expr)]
        ELSE Try(rule("unary", m.self, <<>>), LAMBDA right :
                 rule("factor_loop", right.self, BinaryExpr(expr, m.res.value[1], right.res.value))))

\* Parser::factor
factor(p) == Try(rule("unary", p, <<>>), LAMBDA e : rule("factor_loop", e.self, e.res.value))

\* the loop of term taking * for an operator of its own level, with unary
\* operands
term_loop_flat(p, expr) ==
    Try(match_type(p, {"Plus", "Minus", "Star"}), LAMBDA m :
        IF m.res.value = <<>> THEN [self |-> m.self, res |-> Ok(expr)]
        ELSE Try(rule("unary", m.self, <<>>), LAMBDA right :
                 rule("term_loop", right.self, BinaryExpr(expr, m.res.value[1], right.res.value))))

\* the loop of Parser::term
term_loop(p, expr) ==
    Try(match_type(p, {"Plus", "Minus"}), LAMBDA m :
        IF m.res.value = <<>> THEN [self |-> m.self, res |-> Ok(expr)]
        ELSE Try(rule("factor", m.self, <<>>), LAMBDA right :
                 rule("term_loop", right.self, BinaryExpr(expr, m.res.value[1], right.res.value))))

\* Parser::term
term(p) == Try(rule("factor", p, <<>>), LAMBDA e : rule("term_loop", e.self, e.res.value))

\* the loop of Parser::comparison
comparison_loop(p, expr) ==
    Try(match_type(p, {"Greater", "GreaterEqual", "Less", "LessEqual"}), LAMBDA m :
        IF m.res.value = <<>> THEN [self |-> m.self, res |-> Ok(expr)]
        ELSE Try(rule("term", m.self, <<>>), LAMBDA right :
                 rule("comparison_loop", right.self,
                                 BinaryExpr(expr, m.res.value[1], right.res.value))))

\* Parser::comparison
comparison(p) == Try(rule("term", p, <<>>), LAMBDA e : rule("comparison_loop", e.self, e.res.value))

\* the loop of Parser::equality
equality_loop(p, expr) ==
    Try(match_type(p, {"BangEqual", "EqualEqual"}), LAMBDA m :
        IF m.res.value = <<>> THEN [self |-> m.self, res |-> Ok(expr)]
        ELSE Try(rule("comparison", m.self, <<>>), LAMBDA right :
                 rule("equality_loop", right.self,
                               BinaryExpr(expr, m.res.value[1], right.res.value))))

\* Parser::equality
equality(p) == Try(rule("comparison", p, <<>>), LAMBDA e : rule("equality_loop", e.self, e.res.value))

\* the loop of Parser::and
and_loop(p, expr) ==
    Try(match_type(p, {"And"}), LAMBDA m :
        IF m.res.value = <<>> THEN [self |-> m.self, res |-> Ok(expr)]
        ELSE Try(rule("equality", m.self, <<>>), LAMBDA right :
                 rule("and_loop", right.self, LogicalExpr(expr, m.res.value[1], right.res.value))))

\* Parser::and
and(p) == Try(rule("equality", p, <<>>), LAMBDA e : rule("and_loop", e.self, e.res.value))

\* the loop of Parser::or
or_loop(p, expr) ==
    Try(match_type(p, {"Or"}), LAMBDA m :
        IF m.res.value = <<>> THEN [self |-> m.self, res |-> Ok(expr)]
        ELSE Try(rule("and", m.self, <<>>), LAMBDA right :
                 rule("or_loop", right.self, LogicalExpr(expr, m.res.value[1], right.res.value))))

\* Parser::or
or(p) == Try(rule("and", p, <<>>), LAMBDA e : rule("or_loop", e.self, e.res.value))

\* Parser::assignment
assignment(p) ==
    Try(rule("or", p, <<>>), LAMBDA e :
        Try(match_type(e.self, {"Equal"}), LAMBDA equals :
            IF equals.res.value = <<>> THEN [self |-> equals.self, res |-> e.res]
            ELSE Try(rule("assignment", equals.self, <<>>), LAMBDA value :
                     IF e.res.value.expr = "Variable"
                     THEN [self |-> value.self,
                           res |-> Ok(AssignExpr(e.res.value.name, value.res.value))]
                     ELSE [self |-> value.self,
                           res |-> Err(LoxParseError(equals.res.value[1],
                                       "Invalid assignment target."))])))

\* Parser::expression
expression(p) == rule("assignment", p, <<>>)

\* Parser::expression_statement
expression_statement(p) ==
    Try(rule("expression", p, <<>>), LAMBDA e :
        Try(consume(e.self, "SemiColon", "Expect ';' after expression"), LAMBDA c :
            [self |-> c.self, res |-> Ok(ExpressionStmt(e.res.value))]))

\* Parser::print_statement
print_statement(p) ==
    Try(rule("expression", p, <<>>), LAMBDA e :
        Try(consume(e.self, "SemiColon", "Expect ';' after value"), LAMBDA c :
            [self |-> c.self, res |-> Ok(PrintStmt(e.res.value))]))

\* Parser::return_statement
return_statement(p) ==
    Try(previous(p), LAMBDA keyword :
        Try(check(p, "SemiColon"), LAMBDA c :
            Try(IF c.res.value THEN [self |-> p, res |-> Ok(<<>>)]
                ELSE Try(rule("expression", p, <<>>), LAMBDA e :
                         [self |-> e.self, res |-> Ok(<<e.res.value>>)]),
                LAMBDA value :
                    Try(consume(value.self, "SemiColon", "Expect ';' after return value."),
                        LAMBDA semi :
                            [self |-> semi.self,
                             res |-> Ok(ReturnStmt(keyword.res.value, value.res.value))]))))

\* Parser::var_declaration
var_declaration(p) ==
    Try(consume(p, "Identifier", "Expect variable name."), LAMBDA name :
        Try(match_type(name.self, {"Equal"}), LAMBDA m :
            Try(IF m.res.value = <<>>
                THEN [self |-> m.self, res |-> Ok(LiteralExpr(ObjNone))]
                ELSE rule("expression", m.self, <<>>),
                LAMBDA initializer :
                    Try(consume(initializer.self, "SemiColon",
                                "Expect ';' after variable declaration."),
                        LAMBDA semi :
                            [self |-> semi.self,
                             res |-> Ok(VarStmt(name.res.value, initializer.res.value))]))))

\* Parser::if_statement
if_statement(p) ==
    Try(consume(p, "LeftParen", "Expect '(' after 'if'."), LAMBDA open :
    Try(rule("expression", open.self, <<>>), LAMBDA condition :
    Try(consume(condition.self, "RightParen", "Expect ')' after if condition."), LAMBDA close :
    Try(rule("statement", close.self, <<>>), LAMBDA then_branch :
    Try(match_type(then_branch.self, {"Else"}), LAMBDA m :
    Try(IF m.res.value = <<>> THEN [self |-> m.self, res |-> Ok(<<>>)]
        ELSE Try(rule("statement", m.self, <<>>), LAMBDA s : [self |-> s.self, res |-> Ok(<<s.res.value>>)]),
        LAMBDA else_branch :
            [self |-> else_branch.self,
             res |-> Ok(IfStmt(condition.res.value, then_branch.res.value,
                               else_branch.res.value))]))))))

\* Parser::while_statement
while_statement(p) ==
    Try(consume(p, "LeftParen", "Expect '(' after 'while'."), LAMBDA open :
    Try(rule("expression", open.self, <<>>), LAMBDA condition :
    Try(consume(condition.self, "RightParen", "Expect ')' after while condition."),
        LAMBDA close :
    Try(rule("statement", close.self, <<>>), LAMBDA body :
        [self |-> body.self, res |-> Ok(WhileStmt(condition.res.value, body.res.value))]))))

\* the three `if let` that follow the body in Parser::for_statement;
\* initializer, condition and increment are Options
desugar(initializer, condition, increment, body) ==
    LET with_increment ==
            IF increment # <<>>
            THEN BlockStmt(<<body, ExpressionStmt(increment[1])>>)
            ELSE body
        loop ==
            IF condition # <<>> THEN WhileStmt(condition[1], with_increment)
            ELSE WhileStmt(LiteralExpr(ObjBool(TRUE)), with_increment)
    IN  IF initializer # <<>> THEN BlockStmt(<<initializer[1], loop>>) ELSE loop

\* the initializer clause of Parser::for_statement
for_initializer(p) ==
    Try(check(p, "SemiColon"), LAMBDA c :
        IF c.res.value THEN [self |-> p, res |-> Ok(<<>>)]
        ELSE Try(match_type(p, {"Var"}), LAMBDA m :
                 Try(IF m.res.value # <<>> THEN rule("var_declaration", m.self, <<>>)
                     ELSE rule("expression_statement", m.self, <<>>),
                     LAMBDA s : [self |-> s.self, res |-> Ok(<<s.res.value>>)])))

\* a clause of Parser::for_statement: None when a ';' is at current,
\* Some(self.expression()?) otherwise
for_clause(p) ==
    Try(check(p, "SemiColon"), LAMBDA c :
        IF c.res.value THEN [self |-> p, res |-> Ok(<<>>)]
        ELSE Try(rule("expression", p, <<>>), LAMBDA e :
                 [self |-> e.self, res |-> Ok(<<e.res.value>>)]))

\* Parser::for_statement
for_statement(p) ==
    Try(consume(p, "LeftParen", "Expect '(' after 'for'."), LAMBDA open :
    Try(rule("for_initializer", open.self, <<>>), LAMBDA initializer :
    Try(rule("for_clause", initializer.self, <<>>), LAMBDA condition :
    Try(consume(condition.self, "SemiColon", "Expect ';' after loop condition."), LAMBDA semi :
    Try(rule("for_clause", semi.self, <<>>), LAMBDA increment :
    Try(consume(increment.self, "RightParen", "Expect ')' after for closure."), LAMBDA close :
    Try(rule("statement", close.self, <<>>), LAMBDA body :
        [self |-> body.self,
         res |-> Ok(desugar(initializer.res.value, condition.res.value,
                            increment.res.value, body.res.value))])))))))

\* the loop of Parser::block_statement
block_loop(p, statements) ==
    Try(check(p, "RightBrace"), LAMBDA c :
        Try(Parser_is_at_end(p), LAMBDA end :
            IF ~c.res.value /\ ~end.res.value
            THEN Try(rule("declaration", p, <<>>), LAMBDA d :
                     rule("block_loop", d.self, Append(statements, d.res.value)))
            ELSE [self |-> p, res |-> Ok(statements)]))

\* Parser::block_statement
block_statement(p) ==
    Try(rule("block_loop", p, <<>>), LAMBDA statements :
        Try(consume(statements.self, "RightBrace", "Expected '}' after block."), LAMBDA c :
            [self |-> c.self, res |-> statements.res]))

\* one turn of the parameter loop of Parser::function, from the parser and
\* the parameters of l: the parameters with one more, and whether the loop
\* goes on (a comma was matched) or breaks
params_turn(l) ==
    IF Len(l.res.value.list) >= 255
    THEN Try(Parser_peek(l.self), LAMBDA t :
             [self |-> l.self,
              res |-> Err(LoxParseError(t.res.value,
                          "Cant't have more than 255 parameters."))])
    ELSE Try(consume(l.self, "Identifier", "Expect parameter name."), LAMBDA param :
             Try(match_type(param.self, {"Comma"}), LAMBDA m :
                 [self |-> m.self,
                  res |-> Ok([list |-> Append(l.res.value.list, param.res.value),
                              again |-> m.res.value # <<>>])]))

\* up to n turns of the parameter loop, until it breaks or returns an error
RECURSIVE params_turns(_, _)
params_turns(l, n) ==
    IF n = 0 THEN l
    ELSE IF n = 1 THEN params_turn(l)
    ELSE LET half == params_turns(l, n \div 2)
         IN  IF half.res.kind # "Ok" THEN half
             ELSE IF ~half.res.value.again THEN half
             ELSE params_turns(half, n - n \div 2)

\* the parameter loop of Parser::function.  Every turn consumes a token, so
\* the loop has ended within as many turns as there are tokens.
params_loop(p, params) ==
    LET l == params_turns([self |-> p, res |-> Ok([list |-> params, again |-> TRUE])],
                          Len(p.tokens))
    IN  IF l.res.kind # "Ok" THEN l
        ELSE [self |-> l.self, res |-> Ok(l.res.value.list)]

\* Parser::function
function(p) ==
    Try(consume(p, "Identifier", "Expect function name."), LAMBDA name :
    Try(consume(name.self, "LeftParen", "Expect '(' after function name."), LAMBDA open :
    Try(check(open.self, "RightParen"), LAMBDA c :
    Try(IF c.res.value THEN [self |-> open.self, res |-> Ok(<<>>)]
        ELSE rule("params_loop", open.self, <<>>), LAMBDA params :
    Try(consume(params.self, "RightParen", "Expect ')' after parameters."), LAMBDA close :
    Try(consume(close.self, "LeftBrace", "Expect '{' before function body."), LAMBDA brace :
    Try(rule("block_statement", brace.self, <<>>), LAMBDA body :
        [self |-> body.self,
         res |-> Ok(FunctionStmt(name.res.value, params.res.value, body.res.value))])))))))

\* Parser::statement
statement(p) ==
    Try(match_type(p, {"Print", "If", "While", "For", "Return", "LeftBrace"}), LAMBDA m :
        LET matched == IF m.res.value = <<>> THEN "" ELSE m.res.value[1].token_type
        IN  CASE matched = "Print" -> rule("print_statement", m.self, <<>>)
              [] matched = "If" -> rule("if_statement", m.self, <<>>)
              [] matched = "While" -> rule("while_statement", m.self, <<>>)
              [] matched = "For" -> rule("for_statement", m.self, <<>>)
              [] matched = "Return" -> rule("return_statement", m.self, <<>>)
              [] matched = "LeftBrace" ->
                    Try(rule("block_statement", m.self, <<>>), LAMBDA b :
                        [self |-> b.self, res |-> Ok(BlockStmt(b.res.value))])
              [] OTHER -> rule("expression_statement", m.self, <<>>))

\* Parser::declaration
declaration(p) ==
    Try(match_type(p, {"Fun", "Var"}), LAMBDA m :
        IF m.res.value = <<>> THEN rule("statement", m.self, <<>>)
        ELSE IF m.res.value[1].token_type = "Fun" THEN rule("function", m.self, <<>>)
        ELSE rule("var_declaration", m.self, <<>>))

rule(name, p, argument) ==
    CASE name = "declaration" -> declaration(p)
      [] name = "function" -> function(p)
      [] name = "var_declaration" -> var_declaration(p)
      [] name = "statement" -> statement(p)
      [] name = "if_statement" -> if_statement(p)
      [] name = "while_statement" -> while_statement(p)
      [] name = "for_statement" -> for_statement(p)
      [] name = "for_initializer" -> for_initializer(p)
      [] name = "for_clause" -> for_clause(p)
      [] name = "return_statement" -> return_statement(p)
      [] name = "print_statement" -> print_statement(p)
      [] name = "block_statement" -> block_statement(p)
      [] name = "expression_statement" -> expression_statement(p)
      [] name = "expression" -> expression(p)
      [] name = "assignment" -> assignment(p)
      [] name = "or" -> or(p)
      [] name = "and" -> and(p)
      [] name = "equality" -> equality(p)
      [] name = "comparison" -> comparison(p)
      [] name = "term" -> term(p)
      [] name = "factor" -> factor(p)
      [] name = "unary" -> unary(p)
      [] name = "Parser_call" -> Parser_call(p)
      [] name = "primary" -> primary(p)
      [] name = "params_loop" -> params_loop(p, argument)
      [] name = "block_loop" -> block_loop(p, argument)
      [] name = "arguments_loop" -> arguments_loop(p, argument)
      [] name = "call_loop" -> call_loop(p, argument)
      [] name = "finish_call" -> finish_call(p, argument)
      [] name = "factor_loop" -> factor_loop(p, argument)
      [] name = "term_loop" -> term_loop(p, argument)
      [] name = "comparison_loop" -> comparison_loop(p, argument)
      [] name = "equality_loop" -> equality_loop(p, argument)
      [] name = "and_loop" -> and_loop(p, argument)
      [] name = "or_loop" -> or_loop(p, argument)

----------------------------------------------------------------------------
(* The programs.  A program is what Parser::parse returns for a source     *)
(* text with one statement per line: three function declarations, then up  *)
(* to MaxStmts statements drawn from Statements.                           *)

MaxStmts == 3

Identifier(lexeme, line) == Token("Identifier", lexeme, line)
Var(lexeme, line) == VariableExpr(Identifier(lexeme, line))
Num(n) == LiteralExpr(ObjNum(n))
Paren(line) == Token("RightParen", ")", line)

\* fun f() { print g(1); print a; }
DeclF(line) ==
    FunctionStmt(Identifier("f", line), <<>>,
        << PrintStmt(CallExpr(Var("g", line), Token("RightParen", ")", line), <<Num(1)>>)),
           PrintStmt(Var("a", line)) >>)

\* fun counter() { var i = 0; fun inc() { i = i + 1; return i; } return inc; }
DeclCounter(line) ==
    FunctionStmt(Identifier("counter", line), <<>>,
        << VarStmt(Identifier("i", line), Num(0)),
           FunctionStmt(Identifier("inc", line), <<>>,
               << ExpressionStmt(AssignExpr(Identifier("i", line),
                      BinaryExpr(Var("i", line), Token("Plus", "+", line), Num(1)))),
                  ReturnStmt(Token("Return", "return", line), <<Var("i", line)>>) >>),
           ReturnStmt(Token("Return", "return", line), <<Var("inc", line)>>) >>)

\* fun g(p) { while (p) { if (p == 1) { return a; } else return; } print 99; }
DeclG(line) ==
    FunctionStmt(Identifier("g", line), <<Identifier("p", line)>>,
        << WhileStmt(Var("p", line),
               BlockStmt(<<
                   IfStmt(BinaryExpr(Var("p", line), Token("EqualEqual", "==", line), Num(1)),
                          BlockStmt(<<ReturnStmt(Token("Return", "return", line),
                                                 <<Var("a", line)>>)>>),
                          <<ReturnStmt(Token("Return", "return", line), <<>>)>>) >>)),
           PrintStmt(Num(99)) >>)

Prelude == <<DeclF(1), DeclCounter(2), DeclG(3)>>

\* a = n
AssignA(n, line) == AssignExpr(Identifier("a", line), Num(n))
And(left, right, line) == LogicalExpr(left, Token("And", "and", line), right)
Or(left, right, line) == LogicalExpr(left, Token("Or", "or", line), right)
CallOf(lexeme, arguments, line) == CallExpr(Var(lexeme, line), Paren(line), arguments)

\* var a = 1;
StmtVarA(line) == VarStmt(Identifier("a", line), Num(1))
\* { a = 2; }
StmtBlockAssign(line) == BlockStmt(<<ExpressionStmt(AssignA(2, line))>>)
\* print a;
StmtPrintA(line) == PrintStmt(Var("a", line))
\* { var a = 2; }
StmtBlockVar(line) == BlockStmt(<<VarStmt(Identifier("a", line), Num(2))>>)
\* { var a = 2; f(); }
StmtBlockCallF(line) ==
    BlockStmt(<<VarStmt(Identifier("a", line), Num(2)),
                ExpressionStmt(CallOf("f", <<>>, line))>>)
\* var c = counter();
StmtVarC(line) == VarStmt(Identifier("c", line), CallOf("counter", <<>>, line))
\* print c();
StmtPrintC(line) == PrintStmt(CallOf("c", <<>>, line))
\* print (false and (a = 3)) or (0 or (a = 4));
StmtShortCircuit(line) ==
    PrintStmt(Or(GroupingExpr(And(LiteralExpr(ObjBool(FALSE)),
                                  GroupingExpr(AssignA(3, line)), line)),
                 GroupingExpr(Or(Num(0), GroupingExpr(AssignA(4, line)), line)), line))
\* print (1 and nil) or (true and (a = 5));
StmtEvaluateRight(line) ==
    PrintStmt(Or(GroupingExpr(And(Num(1), LiteralExpr(ObjNone), line)),
                 GroupingExpr(And(LiteralExpr(ObjBool(TRUE)),
                                  GroupingExpr(AssignA(5, line)), line)), line))
\* { return a; }
StmtBlockReturn(line) ==
    BlockStmt(<<ReturnStmt(Token("Return", "return", line), <<Var("a", line)>>)>>)
\* print g(v);
StmtPrintG(v, line) == PrintStmt(CallOf("g", <<LiteralExpr(v)>>, line))

\* The statements a line of the program can hold, as parsed at `line`
Statements(line) ==
    << StmtVarA(line), StmtBlockAssign(line), StmtPrintA(line), StmtBlockVar(line),
       StmtBlockCallF(line), StmtVarC(line), StmtPrintC(line), StmtShortCircuit(line),
       StmtEvaluateRight(line), StmtBlockReturn(line),
       StmtPrintG(ObjNum(1), line), StmtPrintG(ObjNum(2), line), StmtPrintG(ObjNone, line) >>

\* the program with the declarations on the first lines and then, on line
\* Len(Prelude) + i, the statement choice[i]
ProgramOf(choice) ==
    Prelude \o [i \in DOMAIN choice |-> Statements(Len(Prelude) + i)[choice[i]]]

\* every choice of up to MaxStmts statements
Choices == UNION { [1 .. n -> DOMAIN Statements(0)] : n \in 0 .. MaxStmts }

----------------------------------------------------------------------------
(* Interpreter::interpret, one iteration of `for stmt in stmts` at a time  *)

Running == [kind |-> "Running"]

Init ==
    /\ \E choice \in Choices : program = ProgramOf(choice)
    /\ pc = 1
    /\ environment = new
    /\ output = <<>>
    /\ result = Running
    /\ events = <<>>
    /\ stage = "interpret"
    /\ scanner = Scanner_new("")
    /\ parser = Parser_new(<<>>)
    /\ parse = [statements |-> program, errors |-> <<>>]
    /\ stmts = Ok(program)
    /\ parsed = <<>>
    /\ reported = <<>>

\* the statement the loop is at, executed
Executed ==
    execute_stmt([environment |-> environment, output |-> output, events |-> events],
                 program[pc])

\* execute_stmt returned Ok(()): the loop goes on
interpret_next ==
    /\ result = Running
    /\ pc <= Len(program)
    /\ LET executed == Executed
       IN  /\ executed.res.kind = "Ok"
           /\ pc' = pc + 1
           /\ environment' = executed.self.environment
           /\ output' = executed.self.output
           /\ events' = executed.self.events
    /\ UNCHANGED <<program, result>>
    /\ UNCHANGED lox

\* execute_stmt returned Err(Return(_)): `if let Err(LoxRuntimeException::Err(err))`
\* does not match and the loop goes on
interpret_return ==
    /\ result = Running
    /\ pc <= Len(program)
    /\ LET executed == Executed
       IN  /\ executed.res.kind = "Return"
           /\ pc' = pc + 1
           /\ environment' = executed.self.environment
           /\ output' = executed.self.output
           /\ events' = executed.self.events
    /\ UNCHANGED <<program, result>>
    /\ UNCHANGED lox

\* the loop as it would be if it went on after an error
interpret_goes_on ==
    /\ result = Running
    /\ pc <= Len(program)
    /\ LET executed == Executed
       IN  /\ executed.res.kind = "Err"
           /\ pc' = pc + 1
           /\ environment' = executed.self.environment
           /\ output' = executed.self.output
           /\ events' = executed.self.events
    /\ UNCHANGED <<program, result>>
    /\ UNCHANGED lox

\* execute_stmt returned Err(Err(err)): return Err(err)
interpret_err ==
    /\ result = Running
    /\ pc <= Len(program)
    /\ LET executed == Executed
       IN  /\ executed.res.kind = "Err"
           /\ result' = Err(executed.res.err)
           /\ environment' = executed.self.environment
           /\ output' = executed.self.output
           /\ events' = executed.self.events
    /\ UNCHANGED <<program, pc>>
    /\ UNCHANGED lox

\* the loop is over: return Ok(())
interpret_ok ==
    /\ result = Running
    /\ pc > Len(program)
    /\ result' = Ok(Unit)
    /\ UNCHANGED <<program, pc, environment, output, events>>
    /\ UNCHANGED lox

Next ==
    \/ interpret_next
    \/ interpret_return
    \/ interpret_err
    \/ interpret_ok

Spec == Init /\ [][Next]_vars

----------------------------------------------------------------------------
(* lib.rs: Lox::run, from the source text to the reports.  Parser::parse   *)
(* runs one iteration of its `while !self.is_at_end()` loop at a time.     *)

\* The interpreter of Lox::new() has not been handed a program
NotInvoked == [kind |-> "NotInvoked"]

\* parse() has not returned
Parsing == [kind |-> "Parsing"]

\* Lox::report: the line eprintln! writes
report(line, place, message) ==
    "[line " \o to_string(line) \o "] Error " \o place \o ": " \o message

\* Lox::error
error(line, message) == report(line, "", message)

\* Lox::error_in_parse
error_in_parse(parse_err) ==
    IF parse_err.token.token_type = "Eof"
    THEN report(parse_err.token.line, "at end", parse_err.message)
    ELSE report(parse_err.token.line, "at '" \o parse_err.token.lexeme \o "'",
                parse_err.message)

\* Lox::error_in_interpret: the two lines it writes
error_in_interpret(runtime_err) ==
    <<runtime_err.message, "[line " \o to_string(runtime_err.token.line) \o "]">>

\* tokens.iter().filter_map(|token| token.as_ref().err()): the scan errors
RECURSIVE scan_errors(_)
scan_errors(tokens) ==
    IF tokens = <<>> THEN <<>>
    ELSE IF Len(tokens) = 1
    THEN (IF Head(tokens).kind = "Err" THEN <<Head(tokens).err>> ELSE <<>>)
    ELSE scan_errors(SubSeq(tokens, 1, Len(tokens) \div 2))
         \o scan_errors(SubSeq(tokens, Len(tokens) \div 2 + 1, Len(tokens)))

\* tokens.iter().flatten().collect(): the tokens that are Ok
RECURSIVE flatten(_)
flatten(tokens) ==
    IF tokens = <<>> THEN <<>>
    ELSE IF Len(tokens) = 1
    THEN (IF Head(tokens).kind = "Ok" THEN <<Head(tokens).value>> ELSE <<>>)
    ELSE flatten(SubSeq(tokens, 1, Len(tokens) \div 2))
         \o flatten(SubSeq(tokens, Len(tokens) \div 2 + 1, Len(tokens)))

\* The source texts: up to MaxPhrases of the phrases below, one per line.
MaxPhrases == 2

Phrases ==
    << "print 1 + 2 * 3;",
       "print (1 + 2) * 3;",
       "print 1 - nil;",
       "print \"s\" + \"t\" == \"st\";",
       "fun g(p) { print p; }",
       "g();",
       "g(1, 2);",
       "g(1);",
       "nil();",
       "print ;",
       "Var 1 = 2;",
       "var a = 1;",
       "print 1.05;",
       "print 10.0;",
       "1 = ;",
       "(a) = 1;",
       "-",
       "for (;;) print 1;",
       "for (; false; a = 1) print 2;",
       "for (Var i = 0; i < 1;) print i;",
       "for (Var i = 0;; i = i + 1) return;",
       "for (Var i = 0; i < 1; i = i + 1) print i;",
       "@",
       "a",
       "12",
       "// c",
       "\"s" >>

\* the phrases choice[1], choice[2], .. joined by newlines
RECURSIVE SourceOf(_)
SourceOf(choice) ==
    IF choice = <<>> THEN ""
    ELSE IF Len(choice) = 1 THEN Phrases[choice[1]]
    ELSE Phrases[choice[1]] \o "\n" \o SourceOf(Tail(choice))

Sources == UNION { [1 .. n -> DOMAIN Phrases] : n \in 0 .. MaxPhrases }

\* Lox::new() and then run(src) up to Scanner::new(src)
run(src) ==
    /\ scanner = Scanner_new(src)
    /\ stage = "scan_tokens"
    /\ parser = Parser_new(<<>>)
    /\ parse = [statements |-> <<>>, errors |-> <<>>]
    /\ stmts = Parsing
    /\ parsed = <<>>
    /\ reported = <<>>
    /\ program = <<>>
    /\ pc = 1
    /\ environment = new
    /\ output = <<>>
    /\ result = NotInvoked
    /\ events = <<>>

RunInit == \E choice \in Sources : run(SourceOf(choice))

\* scanner.scan_tokens() returns
run_scan_tokens ==
    /\ stage = "scan_tokens"
    /\ LET scanned == scan_tokens(scanner)
       IN  /\ scanned.panic = ""
           /\ scanner' = scanned
    /\ stage' = "report"
    /\ UNCHANGED <<parser, parse, stmts, parsed, reported>>
    /\ UNCHANGED interpreter

\* scanner.scan_tokens() panics: run() unwinds
run_scan_tokens_panics ==
    /\ stage = "scan_tokens"
    /\ LET scanned == scan_tokens(scanner)
       IN  /\ scanned.panic # ""
           /\ scanner' = scanned
    /\ stage' = "panicked"
    /\ UNCHANGED <<parser, parse, stmts, parsed, reported>>
    /\ UNCHANGED interpreter

\* the scan errors are reported and Parser::new gets the tokens that are Ok
run_parser_new ==
    /\ stage = "report"
    /\ reported' = reported
          \o [i \in DOMAIN scan_errors(scanner.tokens) |->
                error(scan_errors(scanner.tokens)[i].line,
                      scan_errors(scanner.tokens)[i].message)]
    /\ parser' = Parser_new(flatten(scanner.tokens))
    /\ stage' = "parse"
    /\ UNCHANGED <<scanner, parse, stmts, parsed>>
    /\ UNCHANGED interpreter

\* the record of an iteration of the loop of parse: where it began, where
\* declaration() left the parser, where the iteration ended, and the result
Iteration(from, d, to, res) ==
    [from |-> from.current, failed |-> d.self.current, to |-> to.current, res |-> res]

\* Ok(stmt) => statements.push(stmt)
push_stmt(d) ==
    /\ d.res.kind = "Ok"
    /\ parser' = d.self
    /\ parse' = [parse EXCEPT !.statements = Append(@, d.res.value)]
    /\ parsed' = Append(parsed, Iteration(parser, d, d.self, d.res))

\* an iteration of the loop of parse whose declaration() returned Ok(stmt)
parse_push_stmt ==
    /\ stage = "parse"
    /\ Parser_is_at_end(parser).res = Ok(FALSE)
    /\ push_stmt(declaration(parser))
    /\ UNCHANGED <<stage, scanner, stmts, reported>>
    /\ UNCHANGED interpreter

\* parse panicked: run unwinds
panicked(p, d, res) ==
    /\ stmts' = res
    /\ stage' = "panicked"
    /\ parser' = p
    /\ parsed' = Append(parsed, Iteration(parser, d, p, res))

\* Err(e) => { errors.push(e); self.synchronize(); }, s being what
\* synchronize returned
push_error_synchronize(d, s) ==
    IF s.res.kind = "Panic"
    THEN /\ panicked(s.self, d, s.res)
         /\ parse' = [parse EXCEPT !.errors = Append(@, d.res.err)]
    ELSE /\ parser' = s.self
         /\ parsed' = Append(parsed, Iteration(parser, d, s.self, d.res))
         /\ parse' = [parse EXCEPT !.errors = Append(@, d.res.err)]
         /\ UNCHANGED <<stmts, stage>>

\* the match on self.declaration() when it did not return Ok
declaration_failed(d) ==
    /\ d.res.kind # "Ok"
    /\ IF d.res.kind = "Panic"
       THEN panicked(d.self, d, d.res) /\ UNCHANGED parse
       ELSE push_error_synchronize(d, synchronize(d.self))

\* an iteration of the loop of parse whose declaration() returned Err(e):
\* the error is pushed and synchronize() runs.  A panic of is_at_end, of
\* declaration or of synchronize ends parse, and run, there.
parse_push_error ==
    /\ stage = "parse"
    /\ Parser_is_at_end(parser).res # Ok(TRUE)
    /\ IF Parser_is_at_end(parser).res.kind = "Panic"
       THEN /\ stmts' = Parser_is_at_end(parser).res
            /\ stage' = "panicked"
            /\ UNCHANGED <<parser, parse, parsed>>
       ELSE declaration_failed(declaration(parser))
    /\ UNCHANGED <<scanner, reported>>
    /\ UNCHANGED interpreter

\* parse as it would be if only the statements told what it returns
parse_returns_statements ==
    /\ stage = "parse"
    /\ Parser_is_at_end(parser).res = Ok(TRUE)
    /\ stmts' = IF parse.statements # <<>> \/ parse.errors = <<>>
              THEN Ok(parse.statements) ELSE Err(parse.errors)
    /\ stage' = "parsed"
    /\ UNCHANGED <<scanner, parser, parse, parsed, reported>>
    /\ UNCHANGED interpreter

\* the loop of parse is over: Err(errors) when there are errors, else
\* Ok(statements)
parse_returns ==
    /\ stage = "parse"
    /\ Parser_is_at_end(parser).res = Ok(TRUE)
    /\ stmts' = IF parse.errors # <<>> THEN Err(parse.errors) ELSE Ok(parse.statements)
    /\ stage' = "parsed"
    /\ UNCHANGED <<scanner, parser, parse, parsed, reported>>
    /\ UNCHANGED interpreter

\* Ok(stmts) => self.interpreter.interpret(stmts)
run_interpret ==
    /\ stage = "parsed"
    /\ stmts.kind = "Ok"
    /\ program' = stmts.value
    /\ pc' = 1
    /\ result' = Running
    /\ stage' = "interpret"
    /\ UNCHANGED <<scanner, parser, parse, stmts, parsed, reported>>
    /\ UNCHANGED <<environment, output, events>>

\* Err(errors) => for err in errors { self.error_in_parse(&err) }
run_error_in_parse ==
    /\ stage = "parsed"
    /\ stmts.kind = "Err"
    /\ reported' = reported \o [i \in DOMAIN stmts.err |-> error_in_parse(stmts.err[i])]
    /\ stage' = "returned"
    /\ UNCHANGED <<scanner, parser, parse, stmts, parsed>>
    /\ UNCHANGED interpreter

\* interpret returned: Ok(_) => (), Err(err) => self.error_in_interpret(err)
run_returns ==
    /\ stage = "interpret"
    /\ result # Running
    /\ reported' = reported
          \o (IF result.kind = "Err" THEN error_in_interpret(result.err) ELSE <<>>)
    /\ stage' = "returned"
    /\ UNCHANGED <<scanner, parser, parse, stmts, parsed>>
    /\ UNCHANGED interpreter

RunNext ==
    \/ run_scan_tokens
    \/ run_scan_tokens_panics
    \/ run_parser_new
    \/ parse_push_stmt
    \/ parse_push_error
    \/ parse_returns
    \/ run_interpret
    \/ run_error_in_parse
    \/ interpret_next
    \/ interpret_return
    \/ interpret_err
    \/ interpret_ok
    \/ run_returns

RunSpec == RunInit /\ [][RunNext]_vars

\* The source texts with long lists: a function declaration with n
\* parameters or a call with n arguments on the first line, and one of the
\* lines of After on the second.
RECURSIVE Repeat(_, _)
Repeat(text, n) ==
    IF n = 0 THEN ""
    ELSE IF n = 1 THEN text
    ELSE LET half == Repeat(text, n \div 2)
         IN  half \o half \o (IF n % 2 = 1 THEN text ELSE "")

Parameters(n) == "fun f(" \o Repeat("a,", n - 1) \o "a) {}"
Arguments(n) == "g(" \o Repeat("1,", n - 1) \o "1);"

Lengths == {1, 255, 256}
After == {"", "\nprint 1;", "\nreturn;", "\nnil();", "\na"}
Lists == {Parameters(n) : n \in Lengths} \cup {Arguments(n) : n \in Lengths}

ListInit == \E list \in Lists, after \in After : run(list \o after)

ListSpec == ListInit /\ [][RunNext]_vars

----------------------------------------------------------------------------
(* What the claims are stated with                                         *)

\* the statements after the declarations, and the lines they are on
Body == SubSeq(program, Len(Prelude) + 1, Len(program))
L1 == Len(Prelude) + 1
L2 == Len(Prelude) + 2
L3 == Len(Prelude) + 3

\* interpret has returned
Returned == result # Running

\* the chain with the binding of the nearest scope that defines the name
\* overwritten, and nothing else changed
RECURSIVE AssignNearest(_, _, _)
AssignNearest(env, lexeme, value) ==
    IF lexeme \in DOMAIN env.values
    THEN [env EXCEPT !.values = [n \in DOMAIN @ |-> IF n = lexeme THEN value ELSE @[n]]]
    ELSE [env EXCEPT !.enclosing = <<AssignNearest(@[1], lexeme, value)>>]

\* the names each scope of the chain defines, innermost scope first
RECURSIVE ScopeNames(_)
ScopeNames(env) ==
    <<DOMAIN env.values>>
        \o (IF env.enclosing = <<>> THEN <<>> ELSE ScopeNames(env.enclosing[1]))

Events(op) == { i \in DOMAIN events : events[i].op = op }

----------------------------------------------------------------------------
\* C1: an assign to a name that the current scope does not define and an
\* enclosing scope defines returns Ok, yields the assigned value, overwrites
\* the binding of the nearest defining scope and creates no binding; and
\* `var a = 1; { a = 2; } print a;` prints 2.
C1_AssignToEnclosingSucceeds ==
    /\ \A i \in Events("assign") :
          LET e == events[i]
          IN  (/\ e.name.lexeme \notin DOMAIN e.before.values
               /\ Bound(e.before, e.name.lexeme))
              => /\ e.res = Ok(e.value)
                 /\ e.after = AssignNearest(e.before, e.name.lexeme, e.value)
    /\ (Returned /\ Body = <<StmtVarA(L1), StmtBlockAssign(L2), StmtPrintA(L3)>>)
          => (result = Ok(Unit) /\ output = <<"2">>)

\* C2: an assign to a name that no scope of the chain defines fails with
\* the UndefinedVariable error that carries the name token, which is the
\* error interpret returns, and changes no binding of any scope.
C2_AssignUndefinedFails ==
    \A i \in Events("assign") :
        LET e == events[i]
        IN  ~Bound(e.before, e.name.lexeme)
            => /\ e.res.kind = "Err"
               /\ e.res.err.token = e.name
               /\ e.res.err.message = "Undefined variable '" \o e.name.lexeme \o "'."
               /\ e.after = e.before
               /\ result = e.res

\* C2 happens: an assign inside a block, to a name no scope defines
C2_Witness ==
    \E i \in Events("assign") :
        /\ ~Bound(events[i].before, events[i].name.lexeme)
        /\ depth(events[i].before) >= 2

\* C3: whatever way a block is left, the scopes of the current environment
\* are again those of the environment the block was entered in; and when
\* interpret has returned the current environment is the global one.
C3_BlockRestoresEnvironment ==
    /\ \A i \in Events("block") :
          ScopeNames(events[i].after) = ScopeNames(events[i].before)
    /\ Returned => environment.enclosing = <<>>

\* C3 fails on `{ a = 2; }` where a is undefined: the block is left through
\* the `?` and interpret returns with the block's environment current.

\* C4: whatever way the body of a call ends, the scopes of the current
\* environment after the call are those of the caller's environment.
C4_CallRestoresCaller ==
    \A i \in Events("call") :
        ScopeNames(events[i].after) = ScopeNames(events[i].before)

\* C4 happens: one run with a call whose body ran to completion, a call
\* left by a Return raised inside a nested block, and a call left by a
\* runtime error raised inside a nested block
C4_Witness ==
    /\ \E i \in Events("call") : events[i].exit.kind = "Ok"
    /\ \E i \in Events("call") :
          /\ events[i].exit.kind = "Return"
          /\ depth(events[i].inner) > depth(events[i].entered)
    /\ \E i \in Events("call") :
          /\ events[i].exit.kind = "Err"
          /\ depth(events[i].inner) > depth(events[i].entered)

\* C5: the environment of a call encloses the environment the function was
\* declared in: for f, g and counter, declared in the global scope, that is
\* the global environment; so in `var a = 1; { var a = 2; f(); } print a;`
\* the a that f prints, and the a that g returns to it, is the global one.
C5_LexicalScoping ==
    /\ \A i \in Events("call") :
          events[i].fun \in {"f", "g", "counter"}
             => events[i].entered.enclosing[1].enclosing = <<>>
    /\ (Returned /\ Body = <<StmtVarA(L1), StmtBlockCallF(L2), StmtPrintA(L3)>>)
          => (result = Ok(Unit) /\ output = <<"1", "1", "1">>)

\* C6: `var c = counter(); print c(); print c();` prints 1 then 2.
C6_CounterClosure ==
    (Returned /\ Body = <<StmtVarC(L1), StmtPrintC(L2), StmtPrintC(L3)>>)
        => (result = Ok(Unit) /\ output = <<"1", "2">>)

\* a statement of the program that is a top-level `{ return a; }`
TopLevelReturns == { k \in DOMAIN program : program[k] = StmtBlockReturn(k) }

\* C7: a Return ends the call it is raised in, and that call only.  The
\* result of a call is the returned value, Nil when the body completes or
\* the return has no value; g(2) and g(1) return from inside the loop, so
\* `print 99` after the loop does not run, while g(nil) runs it; f goes on
\* after the call of g inside it has returned a, printing it and then a; and
\* interpret returns no Return: after a top-level return it goes on, and an
\* error it returns at such a statement is the runtime error of its value.
C7_ReturnEndsInnermostCall ==
    /\ \A i \in Events("call") :
          LET e == events[i]
          IN  /\ e.exit.kind = "Return" => e.res = Ok(e.exit.value)
              /\ e.exit.kind = "Ok" => e.res = Ok(ObjNone)
              /\ e.res.kind \in {"Ok", "Err"}
              /\ (e.fun = "g" /\ e.params = <<ObjNum(2)>>)
                    => (e.res = Ok(ObjNone) /\ e.out = e.out_before)
              /\ (e.fun = "g" /\ e.params = <<ObjNum(1)>>)
                    => /\ e.out = e.out_before
                       /\ Bound(e.before, "a") => (e.res.kind = "Ok" /\ e.res.value.tag = "Num")
              /\ (e.fun = "g" /\ e.params = <<ObjNone>>)
                    => (e.res = Ok(ObjNone) /\ e.out = Append(e.out_before, "99"))
              /\ (e.fun = "f" /\ e.res.kind = "Ok")
                    => /\ Len(e.out) = Len(e.out_before) + 2
                       /\ e.out[Len(e.out_before) + 1] = e.out[Len(e.out_before) + 2]
    /\ result.kind \in {"Running", "Ok", "Err"}
    /\ \A k \in TopLevelReturns :
          (pc = k /\ result.kind = "Err")
             => result.err = LoxRuntimeError(Identifier("a", k), "Undefined variable 'a'.")

\* C7 happens: interpret went on after a top-level return, g returned a
\* value from inside its loop, and f went on after g returned inside it
C7_Witness ==
    /\ \E k \in TopLevelReturns : pc > k
    /\ \E i \in Events("call") :
          /\ events[i].fun = "g"
          /\ events[i].exit.kind = "Return"
          /\ events[i].res = Ok(ObjNum(2))
          /\ depth(events[i].inner) >= depth(events[i].entered) + 2
    /\ \E i \in Events("call") : events[i].fun = "f" /\ events[i].res.kind = "Ok"

\* C8: once a runtime error is raised it is what interpret returns: nothing
\* is assigned, defined or printed after it (what completes after it are the
\* calls, blocks and logical operators it passes through, each ending with
\* that error), the output written before it is kept, and interpret
\* executes no further statement.
C8_RuntimeErrorIsFatal ==
    /\ \A i \in DOMAIN events :
          events[i].res.kind = "Err"
             => /\ result = events[i].res
                /\ output = events[i].out
                /\ \A j \in (i + 1) .. Len(events) :
                      /\ events[j].op \in {"call", "evaluate_call", "block", "logical"}
                      /\ events[j].res = events[i].res
                      /\ events[j].out = events[i].out
    /\ result.kind = "Err"
          => /\ pc <= Len(program)
             /\ result.err.token.line \in (1 .. Len(Prelude)) \cup {pc}
             /\ ~ENABLED Next

\* C8 happens: interpret returned an error raised inside a call, in a
\* statement that is not the last one, after output was written
C8_Witness ==
    /\ result.kind = "Err"
    /\ pc < Len(program)
    /\ output # <<>>
    /\ \E i \in Events("call") : events[i].res.kind = "Err"

\* the values with one name bound, and nothing else changed
Insert(values, lexeme, value) ==
    [n \in DOMAIN values \cup {lexeme} |-> IF n = lexeme THEN value ELSE values[n]]

\* C9: define binds the name in the current scope and leaves the enclosing
\* scopes as they are; `var a = 1; { var a = 2; } print a;` prints 1.
C9_DefineIsLocal ==
    /\ \A i \in Events("define") :
          LET e == events[i]
          IN  /\ e.after.enclosing = e.before.enclosing
              /\ e.after.values = Insert(e.before.values, e.name, e.value)
    /\ (Returned /\ Body = <<StmtVarA(L1), StmtBlockVar(L2), StmtPrintA(L3)>>)
          => (result = Ok(Unit) /\ output = <<"1">>)

\* C9 happens: the program has run, with a define in a block of a name
\* that the enclosing scope binds
C9_Witness ==
    /\ Returned
    /\ Body = <<StmtVarA(L1), StmtBlockVar(L2), StmtPrintA(L3)>>
    /\ \E i \in Events("define") :
          /\ events[i].before.enclosing # <<>>
          /\ Bound(events[i].before.enclosing[1], events[i].name)

\* only Boolean false and Nil are falsy
Falsy(value) == value = ObjBool(FALSE) \/ value = ObjNone

AssignsAt(line) == { i \in Events("assign") : events[i].name.line = line }

\* C10: `or` with a truthy left operand and `and` with a falsy one yield the
\* left operand and do not evaluate the right one: no binding and no output
\* changes; otherwise the right operand is evaluated and is the result.
\* `print (false and (a = 3)) or (0 or (a = 4));` prints 0 and assigns
\* nothing; `print (1 and nil) or (true and (a = 5));` assigns and prints 5.
C10_LogicalShortCircuit ==
    /\ \A i \in Events("logical") :
          LET e == events[i]
              short == \/ e.operator = "Or" /\ ~Falsy(e.left)
                       \/ e.operator = "And" /\ Falsy(e.left)
          IN  /\ short => /\ ~e.right_evaluated
                          /\ e.res = Ok(e.left)
                          /\ e.env_end = e.env_mid
                          /\ e.out = e.out_mid
              /\ ~short => e.right_evaluated
    /\ \A k \in DOMAIN program :
          /\ (pc = k + 1 /\ program[k] = StmtShortCircuit(k))
                => (AssignsAt(k) = {} /\ output[Len(output)] = "0")
          /\ (pc = k + 1 /\ program[k] = StmtEvaluateRight(k))
                => /\ \E i \in AssignsAt(k) : events[i].res = Ok(ObjNum(5))
                   /\ output[Len(output)] = "5"

\* C10 happens: both statements have been executed where a is bound
C10_Witness ==
    /\ \E k \in DOMAIN program : pc > k /\ program[k] = StmtShortCircuit(k)
    /\ \E k \in DOMAIN program : pc = k + 1 /\ program[k] = StmtEvaluateRight(k)
    /\ Bound(environment, "a")

(***************************************************************************)
(* Claims about a whole run: scanner, parser, driver and interpreter.      *)
(***************************************************************************)

NumberOnly == {"Minus", "Star", "Slash", "Greater", "GreaterEqual", "Less", "LessEqual"}

\* C11: + on two Strings concatenates and on two Numbers adds, and raises
\* "Operands must be two numbers or two strings." for every other pair of
\* operands; - * / > >= < <= with an operand that is not a Number raise
\* "Operands must be numbers."; == and != never raise an error.
C11_BinaryTypeChecks ==
    \A i \in Events("binary") :
        LET e == events[i]
            t == e.operator.token_type
            numbers == e.left.tag = "Num" /\ e.right.tag = "Num"
            strings == e.left.tag = "String" /\ e.right.tag = "String"
        IN  /\ (t = "Plus" /\ strings) => e.res = Ok(ObjString(e.left.s \o e.right.s))
            /\ (t = "Plus" /\ numbers) => e.res = Ok(ObjNum(e.left.n + e.right.n))
            /\ (t = "Plus" /\ ~strings /\ ~numbers)
                  => e.res = throw_err(e.operator,
                                "Operands must be two numbers or two strings.")
            /\ (t \in NumberOnly /\ ~numbers)
                  => e.res = throw_err(e.operator, "Operands must be numbers.")
            /\ (t \in {"EqualEqual", "BangEqual"}) => e.res.kind = "Ok"

\* C12: a call whose callee is not a function raises "Can only call
\* functions and classes." at the closing parenthesis; a call of a function
\* with a number of arguments that is not its number of parameters raises
\* "Expected <parameters> arguments but got <arguments>." there, and nothing
\* of the body runs: call is not entered and nothing is printed.
C12_CallChecks ==
    \A i \in Events("evaluate_call") :
        LET e == events[i]
            expected == Len(e.callee.decl.params)
            got == Len(e.arguments)
            raised(message) ==
                /\ e.res = Err(LoxRuntimeError(e.paren, message))
                /\ e.ran = 0
                /\ e.out = e.out_mid
        IN  /\ e.callee.tag # "Fun" => raised("Can only call functions and classes.")
            /\ (e.callee.tag = "Fun" /\ got # expected)
                  => /\ raised("Expected " \o to_string(expected)
                               \o " arguments but got " \o to_string(got) \o ".")
                     /\ (expected = 1 /\ got = 0)
                           => e.res.err.message = "Expected 1 arguments but got 0."
                     /\ (expected = 1 /\ got = 2)
                           => e.res.err.message = "Expected 1 arguments but got 2."
                     /\ result.kind \in {"Running", "Err"}
                     /\ result.kind = "Err" => result = e.res

\* C12 happens: the one-parameter function g, whose body prints, was called
\* with no argument, the run ended with the error and printed nothing
C12_Witness ==
    /\ stage = "returned"
    /\ output = <<>>
    /\ \E i \in Events("evaluate_call") :
          /\ events[i].callee.tag = "Fun"
          /\ Len(events[i].callee.decl.params) = 1
          /\ events[i].arguments = <<>>
          /\ events[i].callee.decl.body # <<>>
          /\ result = events[i].res

\* the iterations of the loop of parse that ended with res.kind = kind
Iterations(kind) == SelectSeq(parsed, LAMBDA it : it.res.kind = kind)

\* C13: parse returns the statements or the errors, never a mix: Ok with the
\* statement of every iteration, in order, exactly when no declaration
\* failed, and otherwise Err with the error of every failed iteration, in
\* source order, and no statement.
C13_ParseAllOrErrors ==
    stmts.kind \in {"Ok", "Err"}
       => LET failed == Iterations("Err")
              passed == Iterations("Ok")
          IN  /\ stmts.kind = "Ok" <=> failed = <<>>
              /\ stmts.kind = "Ok"
                    => stmts = Ok([i \in DOMAIN passed |-> passed[i].res.value])
              /\ stmts.kind = "Err"
                    => /\ stmts = Err([i \in DOMAIN failed |-> failed[i].res.err])
                       /\ DOMAIN stmts = {"kind", "err"}
                       /\ \A i, j \in DOMAIN failed :
                             i < j => failed[i].from < failed[j].from
              /\ Len(failed) + Len(passed) = Len(parsed)

\* C13 happens: parse returned after an iteration that failed and a later
\* one that gave a statement
C13_Witness ==
    /\ stmts.kind = "Err"
    /\ Len(stmts.err) = 1
    /\ \E i, j \in DOMAIN parsed :
          /\ i < j
          /\ parsed[i].res.kind = "Err"
          /\ parsed[j].res.kind = "Ok"

\* the phrases the source of this run is made of, one on each line
ChoiceOf(source) == CHOOSE choice \in Sources : SourceOf(choice) = source

\* phrases that are one well-formed statement each, and phrases that are
\* one malformed statement each, ended by its own ';'
WellFormed ==
    {"print 1 + 2 * 3;", "print (1 + 2) * 3;", "print 1 - nil;",
     "print \"s\" + \"t\" == \"st\";", "fun g(p) { print p; }",
     "g();", "g(1, 2);", "g(1);", "nil();"}
Malformed == {"print ;", "Var 1 = 2;", "1 = ;", "(a) = 1;"}

\* the lines of the malformed statements of a source, in order
MalformedLines(choice) ==
    SelectSeq([i \in DOMAIN choice |-> i], LAMBDA i : Phrases[choice[i]] \in Malformed)

\* C14: when the source is made of well-formed statements and of k malformed
\* statements, each ended by its own ';', parse returns exactly k errors,
\* one on the line of each malformed statement: no error of a later
\* malformed statement is swallowed and none is invented for a well-formed
\* statement.
C14_EveryErrorReported ==
    stage = "parsed"
       => LET choice == ChoiceOf(scanner.source)
              errors == IF stmts.kind = "Err" THEN stmts.err ELSE <<>>
          IN  (\A i \in DOMAIN choice : Phrases[choice[i]] \in WellFormed \cup Malformed)
                 => [i \in DOMAIN errors |-> errors[i].token.line] = MalformedLines(choice)

\* the first line of the source is text
FirstLineIs(text) ==
    LET source == scanner.source
    IN  /\ Len(source) >= Len(text)
        /\ SubSeq(source, 1, Len(text)) = text
        /\ Len(source) > Len(text) => SubSeq(source, Len(text) + 1, Len(text) + 1) = "\n"

\* the statement on the first line parses to a print of a Binary whose
\* operator is root, and what its execution prints is value
PrintsFirst(root, value) ==
    /\ parsed # <<>>
          => /\ parsed[1].res.kind = "Ok"
             /\ parsed[1].res.value.stmt = "Print"
             /\ parsed[1].res.value.expression.expr = "Binary"
             /\ parsed[1].res.value.expression.operator.token_type = root
    /\ (stage \in {"interpret", "returned"} /\ pc > 1) => Head(output) = value

\* C15 as it is stated: 1 + 2 * 3 evaluates to 7 and (1 + 2) * 3
\* evaluates to 18.
C15_PrecedenceAsStated ==
    /\ FirstLineIs("print 1 + 2 * 3;") => PrintsFirst("Plus", "7")
    /\ FirstLineIs("print (1 + 2) * 3;") => PrintsFirst("Star", "18")

\* C15, amended: parsing then evaluating respects precedence and grouping:
\* 1 + 2 * 3 is the sum of 1 and the product, and evaluates to 7;
\* (1 + 2) * 3 is the product of the group and 3, and evaluates to 9.
C15_Precedence ==
    /\ FirstLineIs("print 1 + 2 * 3;")
          => /\ PrintsFirst("Plus", "7")
             /\ parsed # <<>> => parsed[1].res.value.expression.right.expr = "Binary"
    /\ FirstLineIs("print (1 + 2) * 3;")
          => /\ PrintsFirst("Star", "9")
             /\ parsed # <<>> => parsed[1].res.value.expression.left.expr = "Grouping"

\* C15 happens: both statements were scanned, parsed and executed in a run
C15_Witness ==
    /\ scanner.source = "print 1 + 2 * 3;\nprint (1 + 2) * 3;"
    /\ stage = "returned"
    /\ result.kind = "Ok"
    /\ output = <<"7", "9">>

\* C16: the scan errors and the parse errors of a run are all reported
\* before execution begins, and when there is a scan error or a parse error
\* the interpreter is not invoked: no statement of the source is executed.
C16_ErrorsStopExecution ==
    LET scan == scan_errors(scanner.tokens)
        errors == IF stmts.kind = "Err" THEN stmts.err ELSE <<>>
    IN  /\ stage = "interpret" => Len(reported) = Len(scan) + Len(errors)
        /\ stage = "returned" => Len(reported) >= Len(scan) + Len(errors)
        /\ (scan # <<>> \/ errors # <<>>)
              => /\ result = NotInvoked
                 /\ program = <<>>
                 /\ output = <<>>
                 /\ events = <<>>

\* C17: on the tokens of a scanned source, which end with Eof, parse does
\* not panic: the index of peek stays inside the tokens and previous is not
\* called at index 0; every iteration of its loop, failing or not, consumes
\* at least one token, so that the loop ends, at Eof; and what parse
\* returns is the statements or a non-empty list of errors.
C17_ParseNeverPanics ==
    /\ stmts.kind # "Panic"
    /\ stage = "panicked" => scanner.panic # ""
    /\ parser.tokens # <<>>
          => /\ parser.tokens[Len(parser.tokens)].token_type = "Eof"
             /\ parser.current \in 0 .. Len(parser.tokens) - 1
             /\ Len(parsed) <= Len(parser.tokens) - 1
    /\ \A i \in DOMAIN parsed :
          /\ parsed[i].res.kind \in {"Ok", "Err"}
          /\ parsed[i].from < parsed[i].to
          /\ parsed[i].from <= parsed[i].failed
          /\ parsed[i].failed <= parsed[i].to
          /\ parsed[i].res.kind = "Ok" => parsed[i].failed = parsed[i].to
          /\ i > 1 => parsed[i].from = parsed[i - 1].to
    /\ stmts.kind \in {"Ok", "Err"}
          => /\ parser.current = Len(parser.tokens) - 1
             /\ stmts.kind = "Err" => stmts.err # <<>>

\* C17 happens: parse returned after an iteration whose error was followed
\* by a synchronize that skipped tokens and an iteration in which primary
\* failed at Eof, where advance and synchronize had nothing left to consume
C17_Witness ==
    /\ stmts.kind = "Err"
    /\ \E i \in DOMAIN parsed :
          /\ parsed[i].res.kind = "Err"
          /\ parsed[i].to > parsed[i].failed
    /\ \E i \in DOMAIN parsed :
          /\ parsed[i].res.kind = "Err"
          /\ parsed[i].res.err.message = "Expect expression."
          /\ parsed[i].failed = parsed[i].to
          /\ parsed[i].to = Len(parser.tokens) - 1

\* C18: for every source scan_tokens completes and the tokens it returns
\* end with the Eof token; a scan error is recorded with its line and the
\* scanning goes on after it.
C18_ScanCompletes ==
    stage # "scan_tokens"
       => /\ scanner.panic = ""
          /\ stage # "panicked"
          /\ scanner.tokens # <<>>
          /\ scanner.tokens[Len(scanner.tokens)]
                = Ok(Token_new("Eof", "", ObjNone, scanner.line))
          /\ scanner.current = Len(scanner.source)
          /\ \A i \in DOMAIN scanner.tokens :
                scanner.tokens[i].kind = "Err"
                   => /\ i < Len(scanner.tokens)
                      /\ scanner.tokens[i].err.line \in 1 .. scanner.line

\* the statement of the first iteration of parse is a While of the given
\* condition kind whose body is e.g. Print, or the Block of that body and of
\* the increment as an expression statement
IsWhile(stmt, literal_true, body, increment) ==
    /\ stmt.stmt = "While"
    /\ literal_true => stmt.condition = LiteralExpr(ObjBool(TRUE))
    /\ ~literal_true => stmt.condition.expr = "Binary"
    /\ IF increment
       THEN /\ stmt.body.stmt = "Block"
            /\ Len(stmt.body.statements) = 2
            /\ stmt.body.statements[1].stmt = body
            /\ stmt.body.statements[2].stmt = "Expression"
            /\ stmt.body.statements[2].expression.expr = "Assign"
       ELSE stmt.body.stmt = body

\* the Block of an initializer and of such a While
IsBlockOfWhile(stmt, literal_true, body, increment) ==
    /\ stmt.stmt = "Block"
    /\ Len(stmt.statements) = 2
    /\ stmt.statements[1].stmt = "Var"
    /\ IsWhile(stmt.statements[2], literal_true, body, increment)

\* C19: for is desugared for every combination of present and omitted
\* clauses: a Block of [initializer, While] when there is an initializer,
\* the literal true for an omitted condition, and a Block of [body,
\* increment] for the body when there is an increment; for (;;), a for
\* without initializer and a for without increment parse without error.
C19_ForDesugared ==
    parsed # <<>>
       => LET first == parsed[1].res
          IN  /\ FirstLineIs("for (;;) print 1;")
                    => first.kind = "Ok" /\ IsWhile(first.value, TRUE, "Print", FALSE)
              /\ FirstLineIs("for (; false; a = 1) print 2;")
                    => /\ first.kind = "Ok"
                       /\ first.value.stmt = "While"
                       /\ first.value.condition = LiteralExpr(ObjBool(FALSE))
                       /\ first.value.body.stmt = "Block"
              /\ FirstLineIs("for (Var i = 0; i < 1;) print i;")
                    => first.kind = "Ok" /\ IsBlockOfWhile(first.value, FALSE, "Print", FALSE)
              /\ FirstLineIs("for (Var i = 0;; i = i + 1) return;")
                    => first.kind = "Ok" /\ IsBlockOfWhile(first.value, TRUE, "Return", TRUE)
              /\ FirstLineIs("for (Var i = 0; i < 1; i = i + 1) print i;")
                    => first.kind = "Ok" /\ IsBlockOfWhile(first.value, FALSE, "Print", TRUE)

\* C20: when an = follows a left side that is not a Variable, the error of
\* the statement is "Invalid assignment target." at that = token, whatever
\* follows the =.
C20_InvalidAssignmentTarget ==
    parsed # <<>>
       => LET first == parsed[1].res
              invalid == Err(LoxParseError(Token_new("Equal", "=", ObjNone, 1),
                                           "Invalid assignment target."))
          IN  /\ FirstLineIs("(a) = 1;") => first = invalid
              /\ FirstLineIs("1 = ;") => first = invalid


\* the reserved words of the grammar and the token type of each
ReservedWords ==
    [and |-> "And", class |-> "Class", else |-> "Else", false |-> "False",
     for |-> "For", fun |-> "Fun", if |-> "If", nil |-> "Nil", or |-> "Or",
     print |-> "Print", return |-> "Return", super |-> "Super",
     this |-> "This", true |-> "True", var |-> "Var", while |-> "While"]

\* C23: every reserved word written in lower case is scanned to its keyword
\* token type and never to Identifier; the source var a = 1; reaches the
\* parser starting with a Var token and is parsed as a variable declaration.
C23_ReservedWordsAreKeywords ==
    /\ stage \notin {"scan_tokens", "panicked"}
          => \A i \in DOMAIN scanner.tokens :
                LET token == scanner.tokens[i]
                IN  (token.kind = "Ok" /\ token.value.lexeme \in DOMAIN ReservedWords)
                       => token.value.token_type = ReservedWords[token.value.lexeme]
    /\ (parsed # <<>> /\ FirstLineIs("var a = 1;"))
          => /\ parser.tokens[1].token_type = "Var"
             /\ parsed[1].res.kind = "Ok"
             /\ parsed[1].res.value.stmt = "Var"

\* the first statement has been executed and what it printed is text
FirstPrinted(text) ==
    (stage \in {"interpret", "returned"} /\ pc > 1) => Head(output) = text

\* C22: print shows a number in its shortest decimal form without the
\* trailing ".0" of an integral value: 10.0 prints as 10, and the digits of
\* a number that is not integral are printed unchanged, so that 1.05 prints
\* as 1.05.
C22_PrintedNumbers ==
    /\ FirstLineIs("print 10.0;") => FirstPrinted("10")
    /\ FirstLineIs("print 1.05;") => FirstPrinted("1.05")

\* the second line of the source is a statement that begins with a keyword,
\* where synchronize stops
HasSecondLine ==
    \E i \in DOMAIN parser.tokens :
       parser.tokens[i].line = 2 /\ parser.tokens[i].token_type \in Boundaries

\* the first line is parsed without error, and parse returns no error
ListAccepted ==
    /\ parsed # <<>> => parsed[1].res.kind = "Ok"
    /\ stage = "parsed" => stmts.kind = "Ok"

\* the first line is parsed to the error message, which is the one error
\* parse returns, and the statement on the second line is parsed after it
ListRefused(message) ==
    /\ parsed # <<>>
          => /\ parsed[1].res.kind = "Err"
             /\ parsed[1].res.err.message = message
    /\ stage = "parsed"
          => /\ stmts.kind = "Err"
             /\ Len(stmts.err) = 1
             /\ HasSecondLine => Len(parsed) = 2 /\ parsed[2].res.kind = "Ok"

\* C21: parameter lists and argument lists have the same maximum of 255
\* entries: a list of exactly 255 is accepted, a list of 256 is a parse
\* error, and the parsing goes on with the rest of the source after it.
C21_SameMaximum ==
    /\ FirstLineIs(Parameters(255)) => ListAccepted
    /\ FirstLineIs(Arguments(255)) => ListAccepted
    /\ FirstLineIs(Parameters(256))
          => ListRefused("Cant't have more than 255 parameters.")
    /\ FirstLineIs(Arguments(256))
          => ListRefused("Can't have more than 255 arguments.")

====
